---- MODULE Spec2Model ----
(***************************************************************************)
(* Session core of the AI live voice assistant backend                     *)
(* (src/Backend/src/wsHandler.js, src/Backend/src/utils/gemini.js).        *)
(*                                                                         *)
(* The server is one Node.js event loop.  Every inbound WebSocket message  *)
(* runs the `async` listener of ws.on("message"); the listener runs        *)
(* synchronously up to its first `await` and is then suspended, and the    *)
(* event emitter does not wait for the promise it returns.  A step of the  *)
(* model is one such synchronous segment.                                  *)
(*                                                                         *)
(* Data that no branch of the code reads is left out of the records: the   *)
(* ISO timestamps of history entries and outbound messages, `connectedAt`, *)
(* `pendingFrame` (never read or written after construction) and the       *)
(* prompt text.                                                            *)
(***************************************************************************)
EXTENDS Integers, Sequences, FiniteSets, TLC

(* ----------------------------- bounds ---------------------------------- *)

\* inbound messages per run of the full engine (Spec)
MaxMsgs == 2
\* inbound frames per run of the frame scenarios (SpecFrames)
MaxFrames == 3
\* inbound chat/set_goal messages per run of the chat scenarios (SpecChat)
MaxChats == 3
\* clock ticks per run
MaxTicks == 3
\* sockets the renderer creates per run (SpecClient)
MaxSockets == 12
\* messages on the wire up to which the application still sends (SpecSend)
MaxWire == 3
\* screen streams the renderer is given per run (SpecCapture)
MaxStreams == 2
\* frames handed to the frame callback per run (SpecCapture)
MaxDelivered == 2

(* ------------------------- program constants --------------------------- *)

\* FRAME_COMPARISON_CONFIG.minDifferentPixels
MinDifferentPixels == 1000
\* FRAME_COMPARISON_CONFIG.checkIntervalMs
CheckIntervalMs == 1000
\* WebSocketManager.maxReconnectAttempts
maxReconnectAttempts == 10
\* WebSocketManager.reconnectDelay, in milliseconds
reconnectDelay == 3000

(* ------------------------------ values --------------------------------- *)

\* JS null for lastFrameData / an absent message field
NULL == "null"
\* JS null for lastFrameTimestamp
NullTime == -1
\* Date.now() when the server starts (epoch milliseconds, never 0)
StartTime == 5 * CheckIntervalMs
\* the clock is observed in steps of half the throttle interval
TickMs == CheckIntervalMs \div 2

\* the session ids generateSessionId hands out (it never repeats one)
SessionIds == {1, 2}

\* The bitmap a base64 text decodes to: width, height and the number of
\* leading pixels that are red (the rest are blue).
Png(img) ==
    CASE img = "imgA" -> [width |-> 100, height |-> 100, red |-> 0]
      [] img = "imgB" -> [width |-> 100, height |-> 100, red |-> 999]
      [] img = "imgC" -> [width |-> 100, height |-> 100, red |-> 1000]
      [] img = "imgD" -> [width |-> 100, height |-> 100, red |-> 10000]
      [] img = "imgW" -> [width |-> 200, height |-> 100, red |-> 0]
      [] img = "imgV" -> [width |-> 200, height |-> 100, red |-> 999]
      [] img = "imgU" -> [width |-> 200, height |-> 100, red |-> 1000]
      [] OTHER -> [width |-> 0, height |-> 0, red |-> 0]

\* well-formed base64 that sharp can decode / cannot decode
Images == {"imgA", "imgB", "imgC", "imgD", "imgW", "imgV", "imgU"}
Undecodable == {"imgX"}
Base64Strings == Images \cup Undecodable

(* --------------------------- wire messages ----------------------------- *)

\* A string carrying an image: an optional data-URI prefix followed by the
\* base64 text.  uri is "" (no prefix) or the prefix up to and including
\* "base64,"; b64 is the text after it.
Payload(uri, b64) == [uri |-> uri, b64 |-> b64]
PngUri == "data:image/png;base64,"
JpegUri == "data:image/jpeg;base64,"
\* the empty string "" / an absent (undefined) field
EmptyString == Payload("", "")
Absent == Payload(NULL, NULL)
\* base64 text the format check rejects / text of blanks only
Corrupt == "#corrupt"
Blank == " "
\* text of more than 100 characters: base64 letters up to the 100th, and a
\* character outside the base64 alphabet further on
LongCorrupt == "imgL#"
\* base64Image.substring(0, Math.min(100, base64Image.length)): the other
\* names stand for texts that their first 100 characters tell apart
Sample(b64) == IF b64 = LongCorrupt THEN "imgL" ELSE b64
\* /^[A-Za-z0-9+/]+=*$/.test(sample)
base64RegexTest(sample) == sample \in Base64Strings \cup {"imgL"}

\* metadata objects: functions from keys to values
EmptyMeta == [k \in {} |-> ""]

\* One inbound WebSocket text frame.  json = FALSE is text JSON.parse rejects;
\* otherwise the fields of the parsed object, NULL when absent.
Msg(type) ==
    [json |-> TRUE, type |-> type, data |-> Absent, frame |-> Absent,
     message |-> NULL, content |-> NULL, frameData |-> Absent,
     goal |-> NULL, metadata |-> EmptyMeta]
Garbage == [Msg(NULL) EXCEPT !.json = FALSE]
FrameMsg(d) == [Msg("frame") EXCEPT !.data = d]
LegacyFrameMsg(d) == [Msg("screen_frame") EXCEPT !.frame = d]
ChatMsg(text, fd) == [Msg("chat") EXCEPT !.message = text, !.frameData = fd]
LegacyChatMsg(text) == [Msg("chat_message") EXCEPT !.content = text]
SetGoalMsg(g) == [Msg("set_goal") EXCEPT !.goal = g]
MetadataMsg(md) == [Msg("update_metadata") EXCEPT !.metadata = md]

\* JS truthiness of a text field and of an image field, and `a || b`
\* mutant of Truthy: the empty string counts as a value
TruthyLoose(v) == v # NULL
Truthy(v) == v # NULL /\ v # ""
Or(a, b) == IF Truthy(a) THEN a ELSE b
TruthyData(d) == d # Absent /\ d # EmptyString
OrData(a, b) == IF TruthyData(a) THEN a ELSE b

(* ------------------------------ state ---------------------------------- *)

VARIABLES
    activeSessions,  \* the registry Map: the set of session ids that are keys
    session,         \* session id -> the session object (kept while handlers
                     \* still hold a reference to it after the key is deleted)
    wsState,         \* session id -> "none" | "open" | "closed"
    outbound,        \* session id -> the messages ws.send put on the socket
    handlers,        \* the suspended message handlers (async frames)
    now,             \* Date.now()
    received,        \* the number of inbound messages so far
    aiCalls,         \* log: every AI Gateway call, in the order started
    lastFrameCall    \* log: session id -> the latest frame analysis call:
                     \* when it started, when its frame arrived, its image

\* the renderer's WebSocketManager (Frontend/renderer/websocket.js) and the
\* browser sockets it created
VARIABLES
    ws,                 \* this.ws: the current socket's number, 0 for null
    isConnected,        \* this.isConnected
    reconnectAttempts,  \* this.reconnectAttempts
    reconnectTimeout,   \* this.reconnectTimeout: "null" | "pending" | "fired"
    status,             \* the last status handed to updateStatus
    sockets,            \* socket number -> readyState, in creation order
    wire,               \* log: what ws.send transmitted, and on which socket
    sendResult,         \* what the last call of send() returned, as text
    delays              \* log: the delay of every reconnect scheduled since
                        \* the counter was last reset

\* the renderer's WebRTCManager (Frontend/renderer/webrtc.js), the screen
\* streams it was given and the timers it set
VARIABLES
    stream,             \* this.stream: the current stream's number, 0 for null
    tracks,             \* stream number -> "live" | "stopped" | "ended"
    isCapturing,        \* this.isCapturing
    isPaused,           \* this.isPaused
    captureInterval,    \* this.captureInterval: "null" | "set"
    intervals,          \* the number of setInterval timers not yet cleared
    starting,           \* the number of startCapture() calls awaiting a stream
    delivered           \* the number of frames handed to the frame callback

serverVars == <<activeSessions, session, wsState, outbound, handlers, now,
                received, aiCalls, lastFrameCall>>

socketVars == <<ws, isConnected, reconnectAttempts, reconnectTimeout, status,
                sockets, wire, sendResult, delays>>

captureVars == <<stream, tracks, isCapturing, isPaused, captureInterval,
                 intervals, starting, delivered>>

clientVars == <<socketVars, captureVars>>

vars == <<serverVars, clientVars>>

\* the session object built on "connection"
NewSession ==
    [conversationHistory |-> <<>>,
     screenHistory |-> <<>>,
     stepHistory |-> <<>>,
     userGoal |-> "",
     isFirstMessage |-> TRUE,
     metadata |-> EmptyMeta,
     lastFrameData |-> NULL,
     lastFrameTimestamp |-> NullTime]

\* no frame analysis call yet
NoCall == [at |-> NullTime, arrived |-> NullTime, image |-> NULL]

\* the manager after its constructor: no socket, no timer, counter at zero
WebSocketManager ==
    /\ ws = 0
    /\ isConnected = FALSE
    /\ reconnectAttempts = 0
    /\ reconnectTimeout = "null"
    /\ status = "none"
    /\ sockets = <<>>
    /\ wire = <<>>
    /\ sendResult = "none"
    /\ delays = <<>>

\* the capture manager after its constructor: no stream, not capturing
WebRTCManager ==
    /\ stream = 0
    /\ tracks = <<>>
    /\ isCapturing = FALSE
    /\ isPaused = FALSE
    /\ captureInterval = "null"
    /\ intervals = 0
    /\ starting = 0
    /\ delivered = 0

Init ==
    /\ activeSessions = {}
    /\ session = [s \in SessionIds |-> NewSession]
    /\ wsState = [s \in SessionIds |-> "none"]
    /\ outbound = [s \in SessionIds |-> <<>>]
    /\ handlers = {}
    /\ now = StartTime
    /\ received = 0
    /\ aiCalls = <<>>
    /\ lastFrameCall = [s \in SessionIds |-> NoCall]
    /\ WebSocketManager
    /\ WebRTCManager

\* ws.send(JSON.stringify(m)): the message goes out only on an OPEN socket
\* (ws hands a send on a closed socket to sendAfterClose, which drops it).
\* `re` names the inbound message being answered (0: none); it is not on the
\* wire.
Out(type, message, error, re) ==
    [type |-> type, message |-> message, error |-> error, re |-> re]
\* mutant of Send: the message goes out whatever the socket's state
SendAlways(s, m) == [outbound EXCEPT ![s] = Append(@, m)]
Send(s, m) ==
    IF wsState[s] = "open"
    THEN [outbound EXCEPT ![s] = Append(@, m)]
    ELSE outbound

(* ---------------------------- Frame Differ ----------------------------- *)

\* base64ToPNG: the decoded bitmap, or null (ok = FALSE) when sharp or pngjs
\* throws; Buffer.from(null) throws as well.
base64ToPNG(b64) ==
    IF b64 \in Images
    THEN [ok |-> TRUE, width |-> Png(b64).width, height |-> Png(b64).height,
          red |-> Png(b64).red]
    ELSE [ok |-> FALSE, width |-> 0, height |-> 0, red |-> 0]

\* pixelmatch on two bitmaps of equal dimensions: the number of pixels whose
\* colour delta exceeds the threshold.  Red against blue exceeds it, so on
\* these bitmaps it is the number of positions where one is red and the
\* other blue.
pixelmatch(png1, png2) ==
    IF png1.red >= png2.red THEN png1.red - png2.red ELSE png2.red - png1.red

\* mutant of DiffersAtLeast: the minimum itself is not enough
DiffersMoreThan(n) == n > MinDifferentPixels
DiffersAtLeast(n) == n >= MinDifferentPixels

\* mutant of compareFrames: an image that cannot be decoded, or a change of
\* dimensions, counts as no change
compareFramesFailClosed(frame1, frame2) ==
    LET png1 == base64ToPNG(frame1)
        png2 == base64ToPNG(frame2)
    IN  IF ~png1.ok \/ ~png2.ok
        THEN [isDifferent |-> FALSE, diffPixels |-> -1]
        ELSE IF png1.width # png2.width \/ png1.height # png2.height
        THEN [isDifferent |-> FALSE, diffPixels |-> -1]
        ELSE LET numDiffPixels == pixelmatch(png1, png2)
             IN  [isDifferent |-> DiffersAtLeast(numDiffPixels),
                  diffPixels |-> numDiffPixels]

compareFrames(frame1, frame2) ==
    LET png1 == base64ToPNG(frame1)
        png2 == base64ToPNG(frame2)
    IN  IF ~png1.ok \/ ~png2.ok
        THEN [isDifferent |-> TRUE, diffPixels |-> -1]
        ELSE IF png1.width # png2.width \/ png1.height # png2.height
        THEN [isDifferent |-> TRUE, diffPixels |-> -1]
        ELSE LET numDiffPixels == pixelmatch(png1, png2)
             IN  [isDifferent |-> DiffersAtLeast(numDiffPixels),
                  diffPixels |-> numDiffPixels]

(* ---------------------------- Throttle Gate ---------------------------- *)

\* `session.lastFrameTimestamp || 0`
OrZero(t) == IF t = NullTime \/ t = 0 THEN 0 ELSE t

\* mutant of TooSoon: a frame exactly one interval later is still too soon
TooSoonInclusive(elapsed) == elapsed <= CheckIntervalMs

TooSoon(elapsed) == elapsed < CheckIntervalMs

\* mutant of ThrottleGate: a session without a reference frame goes through
\* the interval check and the Frame Differ like any other
ThrottleGateNoFreshCase(sess, t) ==
    IF TooSoon(t - OrZero(sess.lastFrameTimestamp)) THEN "skip"
    ELSE "compare"

\* shouldAnalyzeFrame up to its only suspension: "analyze" and "skip" are
\* returned without suspending, "compare" is the `await compareFrames(...)`.
ThrottleGate(sess, t) ==
    IF ~Truthy(sess.lastFrameData) THEN "analyze"
    ELSE IF TooSoon(t - OrZero(sess.lastFrameTimestamp)) THEN "skip"
    ELSE "compare"

(* ----------------------------- AI Gateway ------------------------------ *)

\* An Error: its message text and which of the substrings the code probes
\* for with String.includes (case-sensitive) occur in it.
Probes == {"API key", "quota", "rate limit", "RESOURCE_EXHAUSTED",
           "INVALID_ARGUMENT", "invalid", "decode", "timeout"}
Err(text, has) == [text |-> text, has |-> has]

\* errors ai.models.generateContent rejects with
SdkAuth == Err("API key not valid. Please pass a valid API key.", {"API key"})
SdkExhausted == Err("RESOURCE_EXHAUSTED", {"RESOURCE_EXHAUSTED"})
SdkQuota == Err("You exceeded your current quota", {"quota"})
SdkArgument == Err("INVALID_ARGUMENT", {"INVALID_ARGUMENT"})
SdkTimeout == Err("request timeout", {"timeout"})
SdkOther == Err("fetch failed", {})
SdkErrors == {SdkAuth, SdkExhausted, SdkQuota, SdkArgument, SdkTimeout,
              SdkOther}

\* the text generateContent resolves with for the call made for message id
Reply(id) == "reply" \o ToString(id)

\* outcome of one gateway call
Success(id) == [ok |-> TRUE, text |-> Reply(id), err |-> Err("", {})]
Failure(e) == [ok |-> FALSE, text |-> "", err |-> e]

\* analyzeScreenFrame's catch: the error it rethrows
analyzeScreenFrameError(error) ==
    IF "API key" \in error.has
    THEN Err("Gemini API key is invalid or not set. Check GEMINI_API_KEY in .env",
             {"API key", "invalid"})
    ELSE IF "quota" \in error.has \/ "RESOURCE_EXHAUSTED" \in error.has
    THEN Err("Gemini API quota exceeded. Please wait or upgrade your plan",
             {"quota"})
    ELSE IF "INVALID_ARGUMENT" \in error.has
    THEN Err("Invalid image data sent to Gemini API. Check image format and encoding",
             {})
    ELSE IF "timeout" \in error.has
    THEN Err("Gemini API request timeout. Please try again", {"timeout"})
    ELSE Err("Gemini API error: " \o error.text, error.has)

\* getContextualResponse's catch: the error it rethrows
getContextualResponseError(error) == Err("Failed to get AI response", {})

\* handleScreenFrame's catch: the error outbound for a caught error
FrameErrorOut(error, re) ==
    IF "API key" \in error.has
    THEN Out("error", "AI API authentication failed",
             "Please check GEMINI_API_KEY in .env file", re)
    ELSE IF "quota" \in error.has \/ "rate limit" \in error.has
    THEN Out("error", "AI API rate limit exceeded",
             "Too many requests, please wait a moment", re)
    ELSE IF "invalid" \in error.has \/ "decode" \in error.has
    THEN Out("error", "Invalid image data", "Failed to decode base64 image", re)
    ELSE IF "timeout" \in error.has
    THEN Out("error", "AI API request timeout",
             "Request took too long, please try again", re)
    ELSE Out("error", "Failed to analyze screen", error.text, re)

\* handleChatMessage's catch
ChatErrorOut(error, re) ==
    Out("error", "Failed to get AI response", error.text, re)

(* ------------------------- suspended handlers -------------------------- *)

\* One suspended handler: the message id, its session, what it is suspended
\* on (pc) and the locals it resumes with.
\*   pc = "decided"   `await shouldAnalyzeFrame(...)` on a promise that is
\*                    already resolved with `decision`: resumed from the
\*                    microtask queue
\*   pc = "comparing" `await compareFrames(ref, image)` (sharp decoding)
\*   pc = "gateway"   `await ai.models.generateContent(...)`
\*   pc = "hung"      the same await, on a request the service never answers
\* at, lastData and lastTs note when the message arrived and the throttle
\* state it found; no code reads them.
Handler(id, s, kind, pc) ==
    [id |-> id, sid |-> s, kind |-> kind, pc |-> pc,
     image |-> NULL, format |-> "", text |-> "", goal |-> "",
     meta |-> EmptyMeta, first |-> FALSE, decision |-> FALSE, ref |-> NULL,
     at |-> now, lastData |-> session[s].lastFrameData,
     lastTs |-> session[s].lastFrameTimestamp]

\* Continuations waiting in the microtask queue.  They run, first in first
\* out, before the event loop takes the next timer, I/O completion or socket
\* event; only listeners that the same socket read emits synchronously can
\* run before them.
Microtasks == {h \in handlers : h.pc = "decided"}
NextMicrotask(h) ==
    h \in Microtasks /\ \A g \in Microtasks : h.id <= g.id
EventLoopIdle == Microtasks = {}

\* the log entry of a gateway call
Call(h, api) ==
    [id |-> h.id, sid |-> h.sid, api |-> api, image |-> h.image,
     format |-> h.format, text |-> h.text, goal |-> h.goal, meta |-> h.meta,
     first |-> h.first]

\* mutant of CanReceive: one lock for the whole engine, held while any
\* handler is suspended
CanReceiveExclusive(s, max) ==
    /\ wsState[s] = "open"
    /\ received < max
    /\ \A h \in handlers : h.sid = s

\* a message can arrive: the socket is open, and either the event loop is
\* idle or the same socket read is still emitting messages
CanReceive(s, max) ==
    /\ wsState[s] = "open"
    /\ received < max
    /\ \A h \in Microtasks : h.sid = s

(* ------------------------------ actions -------------------------------- *)

\* wss.on("connection"): register a fresh session and acknowledge
Connect(s) ==
    /\ EventLoopIdle
    /\ wsState[s] = "none"
    /\ activeSessions' = activeSessions \cup {s}
    /\ session' = [session EXCEPT ![s] = NewSession]
    /\ wsState' = [wsState EXCEPT ![s] = "open"]
    /\ outbound' = [outbound EXCEPT
                      ![s] = Append(@, [type |-> "connected",
                                        message |->
                                            "Connected to AI Voice Assistant",
                                        error |-> "", re |-> 0,
                                        sessionId |-> s])]
    /\ UNCHANGED clientVars
    /\ UNCHANGED <<handlers, now, received, aiCalls, lastFrameCall>>

\* mutant of Close: the registry entry outlives its connection
CloseKeepsEntry(s) ==
    /\ EventLoopIdle
    /\ wsState[s] = "open"
    /\ wsState' = [wsState EXCEPT ![s] = "closed"]
    /\ UNCHANGED clientVars
    /\ UNCHANGED <<activeSessions, session, outbound, handlers, now, received,
                   aiCalls, lastFrameCall>>

\* ws.on("close"): drop the registry entry; suspended handlers keep their
\* reference to the session object
Close(s) ==
    /\ EventLoopIdle
    /\ wsState[s] = "open"
    /\ activeSessions' = activeSessions \ {s}
    /\ wsState' = [wsState EXCEPT ![s] = "closed"]
    /\ UNCHANGED clientVars
    /\ UNCHANGED <<session, outbound, handlers, now, received, aiCalls,
                   lastFrameCall>>

\* the registry's entry for an id (undefined when there is none) and the
\* monitoring listing of the registry
getSessionData(s) == IF s \in activeSessions THEN session[s] ELSE NULL
getAllActiveSessions ==
    {[sessionId |-> s,
      messageCount |-> Len(session[s].conversationHistory),
      screenFrameCount |-> Len(session[s].screenHistory),
      userGoal |-> session[s].userGoal] : s \in activeSessions}

\* Time passes.  Only the frame path reads the clock, and it only compares
\* two readings, so time is told apart from the first valid frame on and
\* while a socket is open.
Tick ==
    /\ \E s \in SessionIds : wsState[s] = "open"
    /\ \/ \E h \in handlers : h.kind = "frame"
       \/ \E s \in SessionIds : lastFrameCall[s] # NoCall
    /\ now + TickMs <= StartTime + MaxTicks * TickMs
    /\ now' = now + TickMs
    /\ UNCHANGED clientVars
    /\ UNCHANGED <<activeSessions, session, wsState, outbound, handlers,
                   received, aiCalls, lastFrameCall>>

\* the analysis call of handleScreenFrame: analyzeScreenFrame runs up to
\* `await ai.models.generateContent`
StartFrameCall(h) ==
    /\ aiCalls' = Append(aiCalls, Call(h, "analyzeScreenFrame"))
    /\ lastFrameCall' = [lastFrameCall EXCEPT
                           ![h.sid] = [at |-> now, arrived |-> h.at,
                                       image |-> h.image]]
    /\ handlers' = (handlers \ {h}) \cup {[h EXCEPT !.pc = "gateway"]}
    /\ UNCHANGED clientVars
    /\ UNCHANGED <<activeSessions, session, wsState, outbound, now, received>>

\* mutant of SkipFrame: every received frame becomes the comparison reference
\* and restarts the interval
SkipFrameResets(h) ==
    /\ outbound' = Send(h.sid, Out("status",
                                   "Frame unchanged - skipping analysis",
                                   "", h.id))
    /\ handlers' = handlers \ {h}
    /\ session' = [session EXCEPT ![h.sid].lastFrameData = h.image,
                                  ![h.sid].lastFrameTimestamp = now]
    /\ UNCHANGED clientVars
    /\ UNCHANGED <<activeSessions, wsState, now, received, aiCalls,
                   lastFrameCall>>

\* the skip branch of handleScreenFrame
SkipFrame(h) ==
    /\ outbound' = Send(h.sid, Out("status",
                                   "Frame unchanged - skipping analysis",
                                   "", h.id))
    /\ handlers' = handlers \ {h}
    /\ UNCHANGED clientVars
    /\ UNCHANGED <<activeSessions, session, wsState, now, received,
                   aiCalls, lastFrameCall>>

\* "message" listener, type "frame" / "screen_frame": handleScreenFrame from
\* its entry to `await shouldAnalyzeFrame(session, base64Image)`
ReceiveFrame(s, m, max) ==
    /\ CanReceive(s, max)
    /\ m.json /\ m.type \in {"frame", "screen_frame"}
    /\ LET id == received + 1
           frameData == OrData(m.data, m.frame)
           base64Image == frameData.b64
           imageFormat == IF frameData.uri = PngUri THEN "png" ELSE "jpeg"
           reject(message, error) ==
               /\ outbound' = Send(s, Out("error", message, error, id))
               /\ UNCHANGED <<handlers>>
           gate == ThrottleGate(session[s], now)
           h == [Handler(id, s, "frame", "decided") EXCEPT
                   !.image = base64Image,
                   !.format = imageFormat,
                   !.goal = session[s].userGoal,
                   !.meta = session[s].metadata]
       IN  /\ received' = id
           /\ IF ~TruthyData(frameData)
              THEN reject("No frame data provided",
                          "Frame data field is required")
              ELSE IF base64Image = "" \/ base64Image = Blank
              THEN reject("Invalid frame data", "Base64 image data is empty")
              ELSE IF ~base64RegexTest(Sample(base64Image))
              THEN reject("Invalid frame data format",
                          "Base64 data appears to be corrupted or invalid")
              ELSE /\ handlers' = handlers \cup
                        {CASE gate = "analyze" -> [h EXCEPT !.decision = TRUE]
                           [] gate = "skip" -> [h EXCEPT !.decision = FALSE]
                           [] OTHER ->
                                [h EXCEPT !.pc = "comparing",
                                          !.ref = session[s].lastFrameData]}
                   /\ UNCHANGED outbound
    /\ UNCHANGED clientVars
    /\ UNCHANGED <<activeSessions, session, wsState, now,
                   aiCalls, lastFrameCall>>

\* mutant of ResumeFrame: the test of the decision is inverted
ResumeFrameInverted(h) ==
    /\ NextMicrotask(h)
    /\ IF h.decision THEN SkipFrame(h) ELSE StartFrameCall(h)

\* handleScreenFrame resumed with the decision shouldAnalyzeFrame returned
\* without suspending
ResumeFrame(h) ==
    /\ NextMicrotask(h)
    /\ IF h.decision THEN StartFrameCall(h) ELSE SkipFrame(h)

\* compareFrames settles: shouldAnalyzeFrame returns isDifferent and
\* handleScreenFrame goes on without a further suspension
CompareDone(h) ==
    /\ EventLoopIdle
    /\ h \in handlers /\ h.pc = "comparing"
    /\ IF compareFrames(h.ref, h.image).isDifferent
       THEN StartFrameCall(h)
       ELSE SkipFrame(h)

\* base64Image.substring(0, 100) + "..." (an image name stands for a text
\* that its first 100 characters tell apart)
Truncate(b64) == Sample(b64) \o "..."

\* mutant of FrameAnalyzed: screenHistory keeps the latest entry only
FrameAnalyzedReplaces(sess, h, guidance) ==
    [sess EXCEPT
       !.lastFrameData = h.image,
       !.lastFrameTimestamp = now,
       !.screenHistory = <<[frame |-> Truncate(h.image),
                            guidance |-> guidance,
                            metadata |-> h.meta]>>]

\* mutant of FrameAnalyzed: the reference image is replaced, its time is not
FrameAnalyzedKeepsTime(sess, h, guidance) ==
    [sess EXCEPT
       !.lastFrameData = h.image,
       !.screenHistory = Append(@, [frame |-> Truncate(h.image),
                                    guidance |-> guidance,
                                    metadata |-> h.meta])]

\* the session after a successful frame analysis
FrameAnalyzed(sess, h, guidance) ==
    [sess EXCEPT
       !.lastFrameData = h.image,
       !.lastFrameTimestamp = now,
       !.screenHistory = Append(@, [frame |-> Truncate(h.image),
                                    guidance |-> guidance,
                                    metadata |-> h.meta])]

\* mutant of FrameReturn: the throttle state is updated before the outcome
\* of the call is known
FrameReturnEager(h, r) ==
    /\ EventLoopIdle
    /\ h \in handlers /\ h.kind = "frame" /\ h.pc = "gateway"
    /\ handlers' = handlers \ {h}
    /\ session' = [session EXCEPT
                     ![h.sid] = IF r.ok THEN FrameAnalyzed(@, h, r.text)
                                ELSE [@ EXCEPT
                                        !.lastFrameData = h.image,
                                        !.lastFrameTimestamp = now]]
    /\ outbound' = IF r.ok
                   THEN Send(h.sid, Out("response", r.text, "", h.id))
                   ELSE Send(h.sid,
                             FrameErrorOut(analyzeScreenFrameError(r.err),
                                           h.id))
    /\ UNCHANGED clientVars
    /\ UNCHANGED <<activeSessions, wsState, now, received, aiCalls,
                   lastFrameCall>>

\* mutant of FrameReturn: a failed analysis drops the session's registry
\* entry and starts its state over
FrameReturnFatal(h, r) ==
    /\ EventLoopIdle
    /\ h \in handlers /\ h.kind = "frame" /\ h.pc = "gateway"
    /\ handlers' = handlers \ {h}
    /\ IF r.ok
       THEN /\ session' = [session EXCEPT
                             ![h.sid] = FrameAnalyzed(@, h, r.text)]
            /\ outbound' = Send(h.sid, Out("response", r.text, "", h.id))
            /\ UNCHANGED activeSessions
       ELSE /\ outbound' = Send(h.sid,
                                FrameErrorOut(analyzeScreenFrameError(r.err),
                                              h.id))
            /\ session' = [session EXCEPT ![h.sid] = NewSession]
            /\ activeSessions' = activeSessions \ {h.sid}
    /\ UNCHANGED clientVars
    /\ UNCHANGED <<wsState, now, received, aiCalls, lastFrameCall>>

\* mutant of FrameReturn: a failed analysis is tried a second time before
\* it is reported
FrameReturnRetry(h, r) ==
    /\ EventLoopIdle
    /\ h \in handlers /\ h.kind = "frame" /\ h.pc = "gateway"
    /\ LET tried == Cardinality({c \in 1..Len(aiCalls) :
                                   aiCalls[c].id = h.id})
       IN  IF r.ok
           THEN /\ handlers' = handlers \ {h}
                /\ session' = [session EXCEPT
                                 ![h.sid] = FrameAnalyzed(@, h, r.text)]
                /\ outbound' = Send(h.sid, Out("response", r.text, "", h.id))
                /\ UNCHANGED aiCalls
           ELSE IF tried < 2
           THEN /\ aiCalls' = Append(aiCalls, Call(h, "analyzeScreenFrame"))
                /\ UNCHANGED <<handlers, session, outbound>>
           ELSE /\ handlers' = handlers \ {h}
                /\ outbound' =
                     Send(h.sid,
                          FrameErrorOut(analyzeScreenFrameError(r.err), h.id))
                /\ UNCHANGED <<session, aiCalls>>
    /\ UNCHANGED clientVars
    /\ UNCHANGED <<activeSessions, wsState, now, received, lastFrameCall>>

\* generateContent settles for a frame: the rest of handleScreenFrame's try
\* block, or its catch block
FrameReturn(h, r) ==
    /\ EventLoopIdle
    /\ h \in handlers /\ h.kind = "frame" /\ h.pc = "gateway"
    /\ handlers' = handlers \ {h}
    /\ IF r.ok
       THEN /\ session' = [session EXCEPT
                             ![h.sid] = FrameAnalyzed(@, h, r.text)]
            /\ outbound' = Send(h.sid, Out("response", r.text, "", h.id))
       ELSE /\ outbound' = Send(h.sid,
                                FrameErrorOut(analyzeScreenFrameError(r.err),
                                              h.id))
            /\ UNCHANGED session
    /\ UNCHANGED clientVars
    /\ UNCHANGED <<activeSessions, wsState, now, received,
                   aiCalls, lastFrameCall>>

\* "message" listener, type "chat" / "chat_message": handleChatMessage from
\* its entry to `await ai.models.generateContent` in getContextualResponse
ReceiveChat(s, m, max) ==
    /\ CanReceive(s, max)
    /\ m.json /\ m.type \in {"chat", "chat_message"}
    /\ LET id == received + 1
           chatContent == Or(m.message, m.content)
           base64Image == IF TruthyData(m.frameData)
                          THEN m.frameData.b64 ELSE NULL
           h == [Handler(id, s, "chat", "gateway") EXCEPT
                   !.text = chatContent,
                   !.image = base64Image,
                   !.goal = Or(session[s].userGoal, chatContent),
                   !.meta = session[s].metadata,
                   !.first = session[s].isFirstMessage]
       IN  /\ received' = id
           /\ IF ~Truthy(chatContent)
              THEN /\ outbound' = Send(s, Out("error", "No content provided",
                          "Message field is required for chat messages", id))
                   /\ UNCHANGED <<session, handlers, aiCalls>>
              ELSE /\ session' = [session EXCEPT
                         ![s].conversationHistory =
                             Append(@, [role |-> "user",
                                        content |-> chatContent])]
                   /\ outbound' = Send(s, Out("status",
                                              "Processing your message...",
                                              "", id))
                   /\ aiCalls' = Append(aiCalls,
                                        Call(h, "getContextualResponse"))
                   /\ handlers' = handlers \cup {h}
    /\ UNCHANGED clientVars
    /\ UNCHANGED <<activeSessions, wsState, now, lastFrameCall>>

\* mutant of ChatAnswered: the assistant turn is put at the head of the
\* history (unshift for push)
ChatAnsweredUnshift(sess, h, responseText) ==
    [sess EXCEPT
       !.userGoal = IF h.first THEN h.text ELSE @,
       !.isFirstMessage = IF h.first THEN FALSE ELSE @,
       !.stepHistory = Append(@, responseText),
       !.conversationHistory = <<[role |-> "assistant",
                                  content |-> responseText]>> \o @]

\* mutant of ChatAnswered: a frame that came with the chat becomes the
\* throttle's reference
ChatAnsweredStoresFrame(sess, h, responseText) ==
    [sess EXCEPT
       !.userGoal = IF h.first THEN h.text ELSE @,
       !.isFirstMessage = IF h.first THEN FALSE ELSE @,
       !.stepHistory = Append(@, responseText),
       !.conversationHistory = Append(@, [role |-> "assistant",
                                          content |-> responseText]),
       !.lastFrameData = IF h.image # NULL THEN h.image ELSE @,
       !.lastFrameTimestamp = IF h.image # NULL THEN now ELSE @]

\* mutant of ChatAnswered: the answer is not recorded as a step
ChatAnsweredSkipsStep(sess, h, responseText) ==
    [sess EXCEPT
       !.userGoal = IF h.first THEN h.text ELSE @,
       !.isFirstMessage = IF h.first THEN FALSE ELSE @,
       !.conversationHistory = Append(@, [role |-> "assistant",
                                          content |-> responseText])]

\* the session after a successful chat completion
ChatAnswered(sess, h, responseText) ==
    [sess EXCEPT
       !.userGoal = IF h.first THEN h.text ELSE @,
       !.isFirstMessage = IF h.first THEN FALSE ELSE @,
       !.stepHistory = Append(@, responseText),
       !.conversationHistory = Append(@, [role |-> "assistant",
                                          content |-> responseText])]

\* mutant of ChatReturn: a failed chat takes its user turn back and still
\* ends the first-message state
ChatReturnRollsBack(h, r) ==
    /\ EventLoopIdle
    /\ h \in handlers /\ h.kind = "chat" /\ h.pc = "gateway"
    /\ handlers' = handlers \ {h}
    /\ IF r.ok
       THEN /\ session' = [session EXCEPT
                             ![h.sid] = ChatAnswered(@, h, r.text)]
            /\ outbound' = Send(h.sid, Out("response", r.text, "", h.id))
       ELSE /\ outbound' = Send(h.sid,
                                ChatErrorOut(getContextualResponseError(r.err),
                                             h.id))
            /\ session' = [session EXCEPT
                  ![h.sid].conversationHistory =
                      SubSeq(@, 1, Len(@) - 1),
                  ![h.sid].isFirstMessage = FALSE]
    /\ UNCHANGED clientVars
    /\ UNCHANGED <<activeSessions, wsState, now, received,
                   aiCalls, lastFrameCall>>

\* generateContent settles for a chat: the rest of handleChatMessage's try
\* block, or its catch block
ChatReturn(h, r) ==
    /\ EventLoopIdle
    /\ h \in handlers /\ h.kind = "chat" /\ h.pc = "gateway"
    /\ handlers' = handlers \ {h}
    /\ IF r.ok
       THEN /\ session' = [session EXCEPT
                             ![h.sid] = ChatAnswered(@, h, r.text)]
            /\ outbound' = Send(h.sid, Out("response", r.text, "", h.id))
       ELSE /\ outbound' = Send(h.sid,
                                ChatErrorOut(getContextualResponseError(r.err),
                                             h.id))
            /\ UNCHANGED session
    /\ UNCHANGED clientVars
    /\ UNCHANGED <<activeSessions, wsState, now, received,
                   aiCalls, lastFrameCall>>

\* The service never answers a request: generateContent is called with no
\* deadline (no timeout option, no abort signal, no race against a timer),
\* so its promise stays pending and the handler stays suspended on it.
GatewayHangs(h) ==
    /\ EventLoopIdle
    /\ h \in handlers /\ h.pc = "gateway"
    /\ handlers' = (handlers \ {h}) \cup {[h EXCEPT !.pc = "hung"]}
    /\ UNCHANGED clientVars
    /\ UNCHANGED <<activeSessions, session, wsState, outbound, now, received,
                   aiCalls, lastFrameCall>>

\* mutant of SetGoal: setting the goal also ends the first-message state
SetGoalEndsFirst(sess, goal) ==
    [sess EXCEPT !.userGoal = goal, !.isFirstMessage = FALSE]

\* session.userGoal = message.goal
SetGoal(sess, goal) == [sess EXCEPT !.userGoal = goal]

\* mutant of MergeMetadata: a key the session already has keeps its value
MergeMetadataFirstWins(old, new) ==
    [k \in DOMAIN old \cup DOMAIN new |->
        IF k \in DOMAIN old THEN old[k] ELSE new[k]]

\* { ...session.metadata, ...message.metadata }
MergeMetadata(old, new) ==
    [k \in DOMAIN old \cup DOMAIN new |->
        IF k \in DOMAIN new THEN new[k] ELSE old[k]]

\* mutant of RejectUnknown: a message of an unknown type is ignored
RejectUnknownSilently(s, m, id) == outbound

\* the default case of handleWebSocketMessage's switch
RejectUnknown(s, m, id) ==
    Send(s, Out("error", "Unknown message type: " \o m.type, "", id))

\* "message" listener for the messages handled without suspending:
\* unparseable text, a missing type, and the synchronous cases of
\* handleWebSocketMessage's switch
ReceiveControl(s, m, max) ==
    /\ CanReceive(s, max)
    /\ ~m.json \/ m.type \notin {"frame", "screen_frame", "chat",
                                 "chat_message"}
    /\ LET id == received + 1 IN
       /\ received' = id
       /\ session' =
            IF m.json /\ m.type = "set_goal"
            THEN [session EXCEPT ![s] = SetGoal(@, m.goal)]
            ELSE IF m.json /\ m.type = "update_metadata"
            THEN [session EXCEPT
                    ![s].metadata = MergeMetadata(@, m.metadata)]
            ELSE session
       /\ outbound' =
            IF ~m.json
            THEN Send(s, Out("error", "Failed to process message",
                             "Unexpected token", id))
            ELSE IF ~Truthy(m.type)
            THEN Send(s, Out("error", "Invalid message format",
                             "Message must have a 'type' field", id))
            ELSE CASE m.type = "connection" -> outbound
                   [] m.type = "set_goal" ->
                        Send(s, [type |-> "status",
                                 message |-> "Goal updated", error |-> "",
                                 re |-> id, goal |-> m.goal])
                   [] m.type = "update_metadata" -> outbound
                   [] m.type = "get_history" ->
                        Send(s, [type |-> "history", message |-> "",
                                 error |-> "", re |-> id,
                                 conversationHistory |->
                                     session[s].conversationHistory,
                                 screenHistory |-> session[s].screenHistory])
                   [] m.type = "ping" -> Send(s, Out("pong", "", "", id))
                   [] OTHER -> RejectUnknown(s, m, id)
    /\ UNCHANGED clientVars
    /\ UNCHANGED <<activeSessions, wsState, handlers, now,
                   aiCalls, lastFrameCall>>

(* --------------------------- specifications ---------------------------- *)

Raw(b64) == Payload("", b64)

\* frames the client captures
FrameInputs == {FrameMsg(Raw("imgA")), FrameMsg(Raw("imgD"))}
\* chat and goal messages the client sends
ChatInputs == {ChatMsg("t1", Absent), ChatMsg("t2", Absent)}
GoalInputs == {SetGoalMsg("g1")}
\* one message of every kind the listener tells apart
AllFrameInputs ==
    {FrameMsg(Raw("imgA")), FrameMsg(Payload(PngUri, "imgD")),
     LegacyFrameMsg(Raw("imgA")), FrameMsg(Absent),
     FrameMsg(Payload(JpegUri, "")), FrameMsg(Raw(Corrupt))}
AllChatInputs ==
    {ChatMsg("t1", Absent), ChatMsg("t2", Payload(JpegUri, "imgA")),
     LegacyChatMsg("t1"), ChatMsg("", Absent), ChatMsg(NULL, Absent)}
AllControlInputs ==
    {Garbage, Msg(NULL), Msg("connection"), SetGoalMsg("g1"),
     MetadataMsg([cursor |-> "c1"]), Msg("get_history"), Msg("ping"),
     Msg("bogus")}

\* outcomes of a gateway call
FrameOutcomes(h) == {Success(h.id), Failure(SdkTimeout)}
ChatOutcomes(h) == {Success(h.id), Failure(SdkOther)}
AllOutcomes(h) == {Success(h.id), Failure(SdkTimeout)}

\* the whole engine on one connection that stays open: every kind of
\* message, frames and chats in flight together
Next ==
    \/ Connect(1)
    \/ Tick
    \/ \E m \in AllFrameInputs : ReceiveFrame(1, m, MaxMsgs)
    \/ \E m \in AllChatInputs : ReceiveChat(1, m, MaxMsgs)
    \/ \E m \in AllControlInputs : ReceiveControl(1, m, MaxMsgs)
    \/ \E h \in handlers : ResumeFrame(h)
    \/ \E h \in handlers : CompareDone(h)
    \/ \E h \in handlers : \E r \in AllOutcomes(h) : FrameReturn(h, r)
    \/ \E h \in handlers : \E r \in AllOutcomes(h) : ChatReturn(h, r)

Spec == Init /\ [][Next]_vars

\* a client that streams frames over a connection it keeps open
NextFrames ==
    \/ Connect(1)
    \/ Tick
    \/ \E m \in FrameInputs : ReceiveFrame(1, m, MaxFrames)
    \/ \E h \in handlers : ResumeFrame(h)
    \/ \E h \in handlers : CompareDone(h)
    \/ \E h \in handlers : \E r \in FrameOutcomes(h) : FrameReturn(h, r)

SpecFrames == Init /\ [][NextFrames]_vars

\* a client that chats and sets goals over a connection it keeps open
NextChat ==
    \/ Connect(1)
    \/ \E m \in ChatInputs : ReceiveChat(1, m, MaxChats)
    \/ \E m \in GoalInputs : ReceiveControl(1, m, MaxChats)
    \/ \E h \in handlers : \E r \in ChatOutcomes(h) : ChatReturn(h, r)

SpecChat == Init /\ [][NextChat]_vars

\* connections that open and close while frames and chats are in flight
NextSessions ==
    \/ \E s \in SessionIds : Connect(s)
    \/ \E s \in SessionIds : Close(s)
    \/ \E s \in SessionIds :
          ReceiveFrame(s, FrameMsg(Raw("imgA")), MaxMsgs)
    \/ \E s \in SessionIds : ReceiveChat(s, ChatMsg("t1", Absent), MaxMsgs)
    \/ \E h \in handlers : ResumeFrame(h)
    \/ \E h \in handlers : \E r \in AllOutcomes(h) : FrameReturn(h, r)
    \/ \E h \in handlers : \E r \in AllOutcomes(h) : ChatReturn(h, r)

SpecSessions == Init /\ [][NextSessions]_vars

\* two clients on connections that stay open: one streams the same frame,
\* the other chats
NextPair ==
    \/ \E s \in SessionIds : Connect(s)
    \/ Tick
    \/ ReceiveFrame(1, FrameMsg(Raw("imgA")), MaxFrames)
    \/ ReceiveChat(2, ChatMsg("t1", Absent), MaxFrames)
    \/ \E h \in handlers : ResumeFrame(h)
    \/ \E h \in handlers : CompareDone(h)
    \/ \E h \in handlers : FrameReturn(h, Success(h.id))
    \/ \E h \in handlers : \E r \in ChatOutcomes(h) : ChatReturn(h, r)

SpecPair == Init /\ [][NextPair]_vars

\* goals and metadata updates the client sends; the updates share a key
ControlInputs ==
    {SetGoalMsg("g1"), SetGoalMsg("g2"),
     MetadataMsg([cursor |-> "c1"]),
     MetadataMsg([cursor |-> "c2", element |-> "e1"]),
     MetadataMsg([element |-> "e2"])}

\* a client that sets goals and metadata and chats
NextControl ==
    \/ Connect(1)
    \/ \E m \in ControlInputs : ReceiveControl(1, m, MaxChats)
    \/ ReceiveChat(1, ChatMsg("t1", Absent), MaxChats)
    \/ \E h \in handlers : ChatReturn(h, Success(h.id))

SpecControl == Init /\ [][NextControl]_vars

\* frames of every bitmap: two sizes, differences below, at and above the
\* minimum, and one that cannot be decoded
DifferInputs == {FrameMsg(Raw(img)) : img \in Images \cup Undecodable}

\* a client whose screen changes in every way between two analyses
NextDiffer ==
    \/ Connect(1)
    \/ Tick
    \/ \E m \in DifferInputs : ReceiveFrame(1, m, MaxMsgs)
    \/ \E h \in handlers : ResumeFrame(h)
    \/ \E h \in handlers : CompareDone(h)
    \/ \E h \in handlers : FrameReturn(h, Success(h.id))

SpecDiffer == Init /\ [][NextDiffer]_vars

\* frames with every kind of image payload, good and bad
PayloadInputs ==
    AllFrameInputs \cup
    {FrameMsg(EmptyString), FrameMsg(Raw(Blank)), FrameMsg(Raw("imgX")),
     FrameMsg(Raw(LongCorrupt))}

\* a client whose frames carry every kind of payload
NextPayloads ==
    \/ Connect(1)
    \/ \E m \in PayloadInputs : ReceiveFrame(1, m, MaxMsgs)
    \/ \E h \in handlers : ResumeFrame(h)
    \/ \E h \in handlers : \E r \in FrameOutcomes(h) : FrameReturn(h, r)

SpecPayloads == Init /\ [][NextPayloads]_vars

\* every way a gateway call can settle
GatewayOutcomes(h) == {Success(h.id)} \cup {Failure(e) : e \in SdkErrors}

\* frames and chats against a service that fails in every way it can
NextGateway ==
    \/ Connect(1)
    \/ \E m \in FrameInputs : ReceiveFrame(1, m, MaxMsgs)
    \/ \E m \in ChatInputs : ReceiveChat(1, m, MaxMsgs)
    \/ \E h \in handlers : ResumeFrame(h)
    \/ \E h \in handlers : \E r \in GatewayOutcomes(h) : FrameReturn(h, r)
    \/ \E h \in handlers : \E r \in GatewayOutcomes(h) : ChatReturn(h, r)

SpecGateway == Init /\ [][NextGateway]_vars

\* Frames and chats over a connection that stays open, with a service that
\* may leave a request unanswered.  Every continuation the event loop holds
\* is run: a resolved await is resumed, a comparison finishes, and a request
\* the service answers is answered.  Nothing obliges the client to send or
\* the clock to be read.
NextLive ==
    \/ Connect(1)
    \/ Tick
    \/ \E m \in FrameInputs : ReceiveFrame(1, m, MaxMsgs)
    \/ \E m \in ChatInputs : ReceiveChat(1, m, MaxMsgs)
    \/ \E h \in handlers : ResumeFrame(h)
    \/ \E h \in handlers : CompareDone(h)
    \/ \E h \in handlers : \E r \in FrameOutcomes(h) : FrameReturn(h, r)
    \/ \E h \in handlers : \E r \in ChatOutcomes(h) : ChatReturn(h, r)
    \/ \E h \in handlers : GatewayHangs(h)

SpecLive ==
    /\ Init /\ [][NextLive]_vars
    /\ WF_vars(\E h \in handlers : ResumeFrame(h))
    /\ WF_vars(\E h \in handlers : CompareDone(h))
    /\ WF_vars(\E h \in handlers : \E r \in FrameOutcomes(h) : FrameReturn(h, r))
    /\ WF_vars(\E h \in handlers : \E r \in ChatOutcomes(h) : ChatReturn(h, r))

(* ----------------------- the renderer's socket ------------------------- *)

\* Math.min
Min(a, b) == IF a <= b THEN a ELSE b

\* the sockets the renderer has created
Sockets == 1..Len(sockets)

\* the "connection" message the open listener sends
Hello == [Msg("connection") EXCEPT !.message = "Client connected"]

\* sendFrame(base64Frame): the message it hands to send
sendFrame(base64Frame) == FrameMsg(Payload("", base64Frame))

\* sendChatMessage(message): the message it hands to send; the function has
\* one parameter, a second argument is dropped by the call
sendChatMessage(message, frameData) == ChatMsg(message, Absent)

\* mutant of send: the message goes to the current socket whatever its state
sendUnchecked(w, connected, readyState, data) ==
    IF ws # 0
    THEN Append(w, [socket |-> ws, data |-> data])
    ELSE w

\* send(data): transmits on this.ws only when the manager is connected and
\* the socket is OPEN; the value is the wire w after the call
send(w, connected, readyState, data) ==
    IF connected /\ ws # 0 /\ readyState[ws] = "OPEN"
    THEN Append(w, [socket |-> ws, data |-> data])
    ELSE w

\* what send(data) returns: true exactly when it called ws.send
Returned(connected, readyState) ==
    IF connected /\ ws # 0 /\ readyState[ws] = "OPEN" THEN "true" ELSE "false"

\* connect(): a new socket replaces this.ws; the one it replaces is not closed
connect ==
    /\ Len(sockets) < MaxSockets
    /\ sockets' = Append(sockets, "CONNECTING")
    /\ ws' = Len(sockets) + 1

\* mutant of attemptReconnect: the limit is tested after the attempt is counted
attemptReconnectOffByOne ==
    IF reconnectAttempts > maxReconnectAttempts
    THEN /\ status' = "failed"
         /\ UNCHANGED <<reconnectAttempts, reconnectTimeout, delays>>
    ELSE /\ reconnectAttempts' = reconnectAttempts + 1
         /\ delays' = Append(delays,
                             reconnectDelay * Min(reconnectAttempts + 1, 5))
         /\ status' = "reconnecting"
         /\ reconnectTimeout' = "pending"

\* attemptReconnect(): gives up at the limit, else counts the attempt and
\* replaces the pending timer by one that calls connect() after the delay
attemptReconnect ==
    IF reconnectAttempts >= maxReconnectAttempts
    THEN /\ status' = "failed"
         /\ UNCHANGED <<reconnectAttempts, reconnectTimeout, delays>>
    ELSE /\ reconnectAttempts' = reconnectAttempts + 1
         /\ delays' = Append(delays,
                             reconnectDelay * Min(reconnectAttempts + 1, 5))
         /\ status' = "reconnecting"
         /\ reconnectTimeout' = "pending"

\* initializeApp: the application calls connect() once, when it starts
AppConnects ==
    /\ sockets = <<>>
    /\ connect
    /\ UNCHANGED <<isConnected, reconnectAttempts, reconnectTimeout, status,
                   wire, sendResult, delays>>
    /\ UNCHANGED <<serverVars, captureVars>>

\* the reconnect timer fires: connect()
ReconnectTimerFires ==
    /\ reconnectTimeout = "pending"
    /\ reconnectTimeout' = "fired"
    /\ connect
    /\ UNCHANGED <<isConnected, reconnectAttempts, status, wire, sendResult,
                   delays>>
    /\ UNCHANGED <<serverVars, captureVars>>

\* the "open" listener of socket k
OnOpen(k) ==
    /\ sockets[k] = "CONNECTING"
    /\ sockets' = [sockets EXCEPT ![k] = "OPEN"]
    /\ isConnected' = TRUE
    /\ reconnectAttempts' = 0
    /\ delays' = <<>>
    /\ status' = "connected"
    /\ wire' = send(wire, TRUE, sockets', Hello)
    /\ sendResult' = Returned(TRUE, sockets')
    /\ UNCHANGED <<ws, reconnectTimeout>>
    /\ UNCHANGED <<serverVars, captureVars>>

\* the "close" listener of socket k
OnClose(k) ==
    /\ sockets[k] # "CLOSED"
    /\ sockets' = [sockets EXCEPT ![k] = "CLOSED"]
    /\ isConnected' = FALSE
    /\ attemptReconnect
    /\ UNCHANGED <<ws, wire, sendResult>>
    /\ UNCHANGED <<serverVars, captureVars>>

\* the "error" listener of socket k; the socket's "close" follows
OnError(k) ==
    /\ sockets[k] \in {"CONNECTING", "OPEN"}
    /\ sockets' = [sockets EXCEPT ![k] = "CLOSING"]
    /\ isConnected' = FALSE
    /\ status' = "error"
    /\ UNCHANGED <<ws, reconnectAttempts, reconnectTimeout, wire, sendResult,
                   delays>>
    /\ UNCHANGED <<serverVars, captureVars>>

\* disconnect(): the timer is cleared and the current socket told to close;
\* its listeners stay attached
disconnect ==
    /\ ws # 0 \/ reconnectTimeout # "null" \/ status # "disconnected"
    /\ reconnectTimeout' = "null"
    /\ sockets' = IF ws # 0 /\ sockets[ws] \in {"CONNECTING", "OPEN"}
                  THEN [sockets EXCEPT ![ws] = "CLOSING"]
                  ELSE sockets
    /\ ws' = 0
    /\ isConnected' = FALSE
    /\ status' = "disconnected"
    /\ UNCHANGED <<reconnectAttempts, wire, sendResult, delays>>
    /\ UNCHANGED <<serverVars, captureVars>>

\* the application hands a message to send(): handleFrameCaptured through
\* sendFrame, ChatManager.sendMessage through sendChatMessage
AppSends(data) ==
    /\ Len(wire) < MaxWire
    /\ wire' = send(wire, isConnected, sockets, data)
    /\ sendResult' = Returned(isConnected, sockets)
    /\ UNCHANGED <<ws, isConnected, reconnectAttempts, reconnectTimeout, status,
                   sockets, delays>>
    /\ UNCHANGED <<serverVars, captureVars>>

\* the frame and the text the application has to send
CapturedFrames == {"imgA", "imgB"}
TypedTexts == {"t1", "t2"}

\* the messages the application hands to send()
AppData ==
    {sendFrame(f) : f \in CapturedFrames}
    \cup {sendChatMessage(t, Raw(f)) : t \in TypedTexts, f \in CapturedFrames}

\* the renderer's socket manager against a server that may refuse, accept
\* and drop its connections
NextClient ==
    \/ AppConnects
    \/ ReconnectTimerFires
    \/ \E k \in Sockets : OnOpen(k)
    \/ \E k \in Sockets : OnClose(k)
    \/ \E k \in Sockets : OnError(k)
    \/ disconnect

SpecClient == Init /\ [][NextClient]_vars

\* one connection, opened, refused, dropped or closed by the application,
\* while the application sends frames and chats at any moment
NextSend ==
    \/ AppConnects
    \/ \E k \in Sockets : OnOpen(k)
    \/ \E k \in Sockets : OnClose(k)
    \/ \E k \in Sockets : OnError(k)
    \/ disconnect
    \/ \E d \in AppData : AppSends(d)

SpecSend == Init /\ [][NextSend]_vars

(* ----------------------- the renderer's capture ------------------------ *)

\* mutant of isCaptureActive: a paused capture counts as active
isCaptureActiveWhilePaused == isCapturing

\* isCaptureActive()
isCaptureActive == isCapturing /\ ~isPaused

\* getCaptureState()
getCaptureState ==
    IF ~isCapturing THEN "stopped"
    ELSE IF isPaused THEN "paused"
    ELSE "active"

\* what captureFrame() can return: null while the video has no picture,
\* which is always so without a stream
Shots == IF stream # 0 THEN CapturedFrames \cup {NULL} ELSE {NULL}

\* handleFrameCaptured(base64Frame), the registered frame callback: the wire
\* after it; AppState.isConnected is (status === "connected")
handleFrameCaptured(w, base64Frame) ==
    IF status = "connected"
    THEN send(w, isConnected, sockets, sendFrame(base64Frame))
    ELSE w

\* captureFrame() with result f: the callback is called unless f is null
captureFrame(f) ==
    /\ f \in Shots
    /\ IF f = NULL
       THEN UNCHANGED <<delivered, wire, sendResult>>
       ELSE /\ delivered < MaxDelivered
            /\ delivered' = delivered + 1
            /\ wire' = handleFrameCaptured(wire, f)
            /\ sendResult' = IF status = "connected"
                             THEN Returned(isConnected, sockets)
                             ELSE sendResult

\* startFrameCapture(): a new timer; the one captureInterval held, if any,
\* is not cleared
startFrameCapture ==
    /\ captureInterval' = "set"
    /\ intervals' = intervals + 1

\* clearInterval(this.captureInterval); this.captureInterval = null
ClearCaptureInterval ==
    IF captureInterval = "set"
    THEN /\ captureInterval' = "null"
         /\ intervals' = intervals - 1
    ELSE UNCHANGED <<captureInterval, intervals>>

\* startCapture() up to its await of the screen stream
startCapture ==
    /\ Len(tracks) + starting < MaxStreams
    /\ starting' = starting + 1
    /\ UNCHANGED <<stream, tracks, isCapturing, isPaused, captureInterval,
                   intervals, delivered>>
    /\ UNCHANGED <<serverVars, socketVars>>

\* startCapture() after the stream arrived
StartCaptureResolves ==
    /\ starting > 0
    /\ starting' = starting - 1
    /\ tracks' = Append(tracks, "live")
    /\ stream' = Len(tracks) + 1
    /\ isCapturing' = TRUE
    /\ isPaused' = FALSE
    /\ startFrameCapture
    /\ UNCHANGED delivered
    /\ UNCHANGED <<serverVars, socketVars>>

\* startCapture() after both capture methods failed: it returns false
StartCaptureFails ==
    /\ starting > 0
    /\ starting' = starting - 1
    /\ UNCHANGED <<stream, tracks, isCapturing, isPaused, captureInterval,
                   intervals, delivered>>
    /\ UNCHANGED <<serverVars, socketVars>>

\* pauseCapture()
pauseCapture ==
    /\ isPaused' = TRUE
    /\ ClearCaptureInterval
    /\ UNCHANGED <<stream, tracks, isCapturing, starting, delivered>>
    /\ UNCHANGED <<serverVars, socketVars>>

\* resumeCapture()
resumeCapture ==
    /\ IF isCapturing /\ isPaused
       THEN /\ isPaused' = FALSE
            /\ startFrameCapture
       ELSE UNCHANGED <<isPaused, captureInterval, intervals>>
    /\ UNCHANGED <<stream, tracks, isCapturing, starting, delivered>>
    /\ UNCHANGED <<serverVars, socketVars>>

\* the tracks after stopCapture() stopped those of the current stream
StopTracks(t) ==
    IF stream # 0 /\ t[stream] = "live"
    THEN [t EXCEPT ![stream] = "stopped"]
    ELSE t

\* stopCapture()
stopCapture ==
    /\ ClearCaptureInterval
    /\ tracks' = StopTracks(tracks)
    /\ stream' = 0
    /\ isCapturing' = FALSE
    /\ isPaused' = FALSE
    /\ UNCHANGED <<starting, delivered>>
    /\ UNCHANGED <<serverVars, socketVars>>

\* the user ends the sharing of stream k: its "ended" listener calls
\* stopCapture()
TrackEnded(k) ==
    /\ tracks[k] = "live"
    /\ ClearCaptureInterval
    /\ tracks' = StopTracks([tracks EXCEPT ![k] = "ended"])
    /\ stream' = 0
    /\ isCapturing' = FALSE
    /\ isPaused' = FALSE
    /\ UNCHANGED <<starting, delivered>>
    /\ UNCHANGED <<serverVars, socketVars>>

\* mutant of IntervalFires: the timer captures without looking at the state
IntervalFiresUnguarded(f) ==
    /\ intervals > 0
    /\ captureFrame(f)
    /\ UNCHANGED <<stream, tracks, isCapturing, isPaused, captureInterval,
                   intervals, starting>>
    /\ UNCHANGED <<ws, isConnected, reconnectAttempts, reconnectTimeout, status,
                   sockets, delays>>
    /\ UNCHANGED serverVars

\* a timer set by startFrameCapture fires; f is what captureFrame() returns
IntervalFires(f) ==
    /\ intervals > 0
    /\ IF ~isPaused /\ isCapturing
       THEN captureFrame(f)
       ELSE UNCHANGED <<delivered, wire, sendResult>>
    /\ UNCHANGED <<stream, tracks, isCapturing, isPaused, captureInterval,
                   intervals, starting>>
    /\ UNCHANGED <<ws, isConnected, reconnectAttempts, reconnectTimeout, status,
                   sockets, delays>>
    /\ UNCHANGED serverVars

\* ChatManager.sendMessage(message) from the capture on: when capture is
\* active captureFrame() is called, with result f, and the text goes to
\* sendChatMessage together with that result
SendMessage(message, f) ==
    /\ Len(wire) < MaxWire
    /\ f \in Shots
    /\ LET got == isCaptureActive /\ f # NULL
           frameData == IF got THEN Raw(f) ELSE Absent
           w == IF got THEN handleFrameCaptured(wire, f) ELSE wire
       IN  /\ got => delivered < MaxDelivered
           /\ delivered' = IF got THEN delivered + 1 ELSE delivered
           /\ wire' = send(w, isConnected, sockets,
                           sendChatMessage(message, frameData))
           /\ sendResult' = Returned(isConnected, sockets)
    /\ UNCHANGED <<stream, tracks, isCapturing, isPaused, captureInterval,
                   intervals, starting>>
    /\ UNCHANGED <<ws, isConnected, reconnectAttempts, reconnectTimeout, status,
                   sockets, delays>>
    /\ UNCHANGED serverVars

\* the server takes the next message off the socket and dispatches it
Deliver(s) ==
    /\ received < Len(wire)
    /\ LET m == wire[received + 1].data IN
       \/ ReceiveFrame(s, m, Len(wire))
       \/ ReceiveChat(s, m, Len(wire))
       \/ ReceiveControl(s, m, Len(wire))

\* the capture manager under any order of the application's calls, with no
\* server connection
NextCapture ==
    \/ startCapture
    \/ StartCaptureResolves
    \/ StartCaptureFails
    \/ pauseCapture
    \/ resumeCapture
    \/ stopCapture
    \/ \E k \in 1..Len(tracks) : TrackEnded(k)
    \/ \E f \in Shots : IntervalFires(f)

SpecCapture == Init /\ [][NextCapture]_vars

\* renderer and server together over one connection: the screen is shared,
\* the user sends chats while capture is active and the video has a picture
NextWire ==
    \/ AppConnects
    \/ \E k \in Sockets : OnOpen(k)
    \/ Connect(1)
    \/ startCapture
    \/ StartCaptureResolves
    \/ \E t \in TypedTexts : \E f \in CapturedFrames :
          isCaptureActive /\ SendMessage(t, f)
    \/ \E f \in Shots : IntervalFires(f)
    \/ Deliver(1)
    \/ Tick
    \/ \E h \in handlers : ResumeFrame(h)
    \/ \E h \in handlers : CompareDone(h)
    \/ \E h \in handlers : \E r \in AllOutcomes(h) : FrameReturn(h, r)
    \/ \E h \in handlers : \E r \in AllOutcomes(h) : ChatReturn(h, r)

SpecWire == Init /\ [][NextWire]_vars

(* ------------------------------ claims --------------------------------- *)

Last(seq) == seq[Len(seq)]

\* handlers of session s that have begun and not finished
Unfinished(s) == {h \in handlers : h.sid = s}
\* frame handlers that found a previously analyzed frame / found none
IsFrame(h) == h.kind = "frame"
Fresh(h) == h.lastData = NULL
\* the time since lastFrameAt that handler h measured
Elapsed(h) == h.at - OrZero(h.lastTs)

\* this step ends handler h
Finishes(h) == \A g \in handlers' : g.id # h.id
\* this step puts exactly one message on h's socket, answering h
Answers(h) ==
    /\ Len(outbound'[h.sid]) = Len(outbound[h.sid]) + 1
    /\ Last(outbound'[h.sid]).re = h.id
AnswerType(h) == Last(outbound'[h.sid]).type
\* this step starts a frame analysis call on session s
StartsFrameCall(s) ==
    /\ Len(aiCalls') = Len(aiCalls) + 1
    /\ Last(aiCalls').sid = s
    /\ Last(aiCalls').api = "analyzeScreenFrame"

\* C1: within one session messages are handled one at a time: no message's
\* handling has begun while an earlier message of the session is unfinished,
\* so no two handlers of one session are ever unfinished together.
C1_OneAtATime ==
    \A s \in SessionIds : Cardinality(Unfinished(s)) <= 1

\* C2: of a burst of frames with identical image content, all arriving
\* inside one minimum-interval window, at most one is analyzed: no frame
\* analysis call starts for a frame that arrived less than the interval
\* away from an identical frame already analyzed.
C2_BurstAnalyzedOnce ==
    [][\A s \in SessionIds :
          (StartsFrameCall(s) /\ lastFrameCall[s] # NoCall
             /\ lastFrameCall'[s].image = lastFrameCall[s].image)
          => \/ lastFrameCall'[s].arrived - lastFrameCall[s].arrived
                   >= CheckIntervalMs
             \/ lastFrameCall[s].arrived - lastFrameCall'[s].arrived
                   >= CheckIntervalMs]_vars

\* C3: frame analysis calls of a session start at least the minimum interval
\* apart, whatever the frames' content and arrival rate.
C3_CallsRateLimited ==
    [][\A s \in SessionIds :
          (StartsFrameCall(s) /\ lastFrameCall[s] # NoCall)
          => now' - lastFrameCall[s].at >= CheckIntervalMs]_vars

\* C4: a valid frame handled while the session has no previously analyzed
\* frame is never skipped: its handler ends only after its AI analysis call,
\* with a guidance (response) or an error outbound.
C4_FirstFrameAnalyzed ==
    [][\A h \in handlers :
          (IsFrame(h) /\ Fresh(h))
          => /\ h.pc = "decided" => h.decision
             /\ Finishes(h)
                  => /\ h.pc = "gateway"
                     /\ \E i \in 1..Len(aiCalls) : aiCalls[i].id = h.id
                     /\ Answers(h)
                     /\ AnswerType(h) \in {"response", "error"}]_vars

\* a first frame on a fresh session was analyzed and answered with guidance
C4_Witness ==
    /\ Len(session[1].screenHistory) = 1
    /\ Len(aiCalls) = 1 /\ aiCalls[1].id = 1
    /\ \E i \in 1..Len(outbound[1]) :
          outbound[1][i].type = "response" /\ outbound[1][i].re = 1

\* C5: for a frame that finds a previously analyzed frame, the Throttle Gate
\* skips when less than the minimum interval has elapsed since lastFrameAt,
\* whatever the content; otherwise it analyzes exactly when the Frame Differ
\* reports the frame different from lastFrameImage.
C5_GateDecision ==
    [][\A h \in handlers :
          (IsFrame(h) /\ ~Fresh(h))
          => LET different == compareFrames(h.lastData, h.image).isDifferent
                 analyze == Elapsed(h) >= CheckIntervalMs /\ different
             IN  /\ h.pc = "gateway" => analyze
                 /\ h.pc = "decided" => Elapsed(h) < CheckIntervalMs
                 /\ (Finishes(h) /\ h.pc # "gateway")
                       => ~analyze /\ Answers(h) /\ AnswerType(h) = "status"
                 /\ (h \notin handlers' /\ ~Finishes(h))
                       => analyze /\ StartsFrameCall(h.sid)]_vars

\* a frame that differs from the last analyzed one arrived after the
\* interval and its analysis call has started
C5_Witness ==
    \E h \in handlers :
        /\ IsFrame(h) /\ h.pc = "gateway"
        /\ h.lastData = "imgA" /\ h.image = "imgD"
        /\ Elapsed(h) = CheckIntervalMs

\* the outbound that reports a skipped frame
SkipStatus(re) == Out("status", "Frame unchanged - skipping analysis", "", re)
\* this step ends frame handler h by skipping its frame
Skips(h) ==
    /\ IsFrame(h) /\ Finishes(h)
    /\ Len(outbound'[h.sid]) > Len(outbound[h.sid])
    /\ Last(outbound'[h.sid]) = SkipStatus(h.id)
\* the throttle state and the screen history of a session
FrameState(sess) ==
    <<sess.lastFrameData, sess.lastFrameTimestamp, sess.screenHistory>>

\* C6: a frame the Throttle Gate skips makes no AI Gateway call, is answered
\* with exactly one status outbound and leaves lastFrameImage, lastFrameAt
\* and screenHistory unchanged; so lastFrameImage stays the last analyzed
\* frame however many frames are skipped after it.
C6_SkipIsInert ==
    [][/\ \A h \in handlers :
            Skips(h)
            => /\ Answers(h)
               /\ \A i \in 1..Len(outbound[h.sid]) :
                     outbound[h.sid][i].re # h.id
               /\ aiCalls' = aiCalls
               /\ \A i \in 1..Len(aiCalls) : aiCalls[i].id # h.id
               /\ FrameState(session'[h.sid]) = FrameState(session[h.sid])
       /\ \A s \in SessionIds :
            LET hist == session[s].screenHistory
            IN  IF hist = <<>>
                THEN session[s].lastFrameData = NULL
                ELSE Last(hist).frame = Truncate(session[s].lastFrameData)
      ]_vars

\* frame A was analyzed, an identical frame was then skipped, and a different
\* frame D was analyzed after it and became lastFrameImage
C6_Witness ==
    /\ received = 3
    /\ [i \in 1..Len(outbound[1]) |-> outbound[1][i].type]
          = <<"connected", "response", "status", "response">>
    /\ [i \in 1..Len(aiCalls) |-> aiCalls[i].image] = <<"imgA", "imgD">>
    /\ session[1].lastFrameData = "imgD"
    /\ session[1].lastFrameTimestamp >= StartTime + CheckIntervalMs

\* C7: lastFrameImage and lastFrameAt change only when a frame analysis
\* succeeds, and then to the analyzed frame and the present time together
\* with one new screenHistory entry; a failed AI Gateway call leaves both and
\* screenHistory as they were.
C7_UpdateOnlyOnSuccess ==
    [][\A s \in SessionIds :
          /\ FrameState(session'[s]) # FrameState(session[s])
             => \E h \in handlers :
                   /\ IsFrame(h) /\ h.sid = s /\ h.pc = "gateway"
                   /\ Finishes(h) /\ Answers(h) /\ AnswerType(h) = "response"
                   /\ session'[s].lastFrameData = h.image
                   /\ session'[s].lastFrameTimestamp = now
                   /\ Len(session'[s].screenHistory)
                         = Len(session[s].screenHistory) + 1
          /\ \A h \in handlers :
                (IsFrame(h) /\ h.sid = s /\ h.pc = "gateway" /\ Finishes(h)
                   /\ Answers(h) /\ AnswerType(h) = "error")
                => FrameState(session'[s]) = FrameState(session[s])]_vars

\* after frame A was analyzed, the AI Gateway call for a later, different
\* frame failed with a timeout: an error went out and the throttle state is
\* still that of A
C7_Witness ==
    /\ Len(aiCalls) = 2
    /\ aiCalls[2].api = "analyzeScreenFrame" /\ aiCalls[2].image = "imgD"
    /\ handlers = {}
    /\ Last(outbound[1]).type = "error"
    /\ Last(outbound[1]).message = "AI API request timeout"
    /\ session[1].lastFrameData = "imgA"
    /\ session[1].lastFrameTimestamp = StartTime
    /\ Len(session[1].screenHistory) = 1

\* the gateway calls made for session s through api, in the order started
CallsOf(s, api) ==
    LET Mine(c) == c.sid = s /\ c.api = api IN SelectSeq(aiCalls, Mine)
ChatCalls(s) == CallsOf(s, "getContextualResponse")
\* the guidance outbounds of session s that answer calls made through api
Guidance(s, api) ==
    LET Mine(m) ==
            /\ m.type = "response"
            /\ \E i \in 1..Len(aiCalls) :
                  aiCalls[i].id = m.re /\ aiCalls[i].api = api
    IN  SelectSeq(outbound[s], Mine)
Texts(seq) == [i \in 1..Len(seq) |-> seq[i].message]
\* the turns of one role in a conversation history
Turns(hist, role) == LET Mine(t) == t.role = role IN SelectSeq(hist, Mine)
GoalWasSet(s) ==
    \E i \in 1..Len(outbound[s]) : outbound[s][i].message = "Goal updated"

\* C8: once the first chat of a fresh session has been answered, userGoal is
\* that chat's text and isFirstMessage is false, and a second chat does not
\* alter userGoal (no set_goal having been sent).
C8_GoalCapture ==
    \A s \in SessionIds :
        (/\ ChatCalls(s) # <<>>
         /\ \E i \in 1..Len(outbound[s]) :
               /\ outbound[s][i].type = "response"
               /\ outbound[s][i].re = ChatCalls(s)[1].id
         /\ ~GoalWasSet(s))
        => /\ session[s].userGoal = ChatCalls(s)[1].text
           /\ ~session[s].isFirstMessage

\* C9: when the chats sent on a session have all been answered, the guidance
\* outbounds are in the order the chats were sent and conversationHistory
\* alternates user, assistant, user, assistant.
C9_ChatOrdering ==
    \A s \in SessionIds :
        LET hist == session[s].conversationHistory
            sent == Guidance(s, "getContextualResponse")
        IN  Len(Turns(hist, "assistant")) = Len(Turns(hist, "user"))
            => /\ \A i \in 1..Len(hist) :
                     hist[i].role = IF i % 2 = 1 THEN "user" ELSE "assistant"
               /\ \A i, j \in 1..Len(sent) : i < j => sent[i].re < sent[j].re

\* C10: on an open connection the chat guidance outbounds are, in order, the
\* assistant turns of conversationHistory, and the frame guidance outbounds
\* are, in order, the entries of screenHistory.
C10_OutboundOrder ==
    \A s \in SessionIds :
        wsState[s] = "open"
        => /\ Texts(Guidance(s, "getContextualResponse"))
                = [i \in 1..Len(Turns(session[s].conversationHistory,
                                      "assistant")) |->
                     Turns(session[s].conversationHistory,
                           "assistant")[i].content]
           /\ Texts(Guidance(s, "analyzeScreenFrame"))
                = [i \in 1..Len(session[s].screenHistory) |->
                     session[s].screenHistory[i].guidance]

\* two chats were answered in the reverse of the order they were sent, and a
\* guidance went out for each
C10_Witness ==
    /\ Texts(Guidance(1, "getContextualResponse")) = <<Reply(2), Reply(1)>>
    /\ Len(session[1].conversationHistory) = 4

\* a definite outcome: guidance, the skipped status, or an error (the
\* "Processing your message..." status only says the work has begun)
DefiniteOutcome(m) ==
    \/ m.type \in {"response", "error"}
    \/ m.type = "status" /\ m.message = "Frame unchanged - skipping analysis"
\* message i of session s has been answered with a definite outcome
Answered(s, i) ==
    \E k \in 1..Len(outbound[s]) :
        outbound[s][k].re = i /\ DefiniteOutcome(outbound[s][k])
\* the handler of message i waits on a gateway call the service leaves
\* unanswered
WaitsForever(i) == \E h \in handlers : h.id = i /\ h.pc = "hung"

\* C11: every frame or chat message received on a connection that stays open
\* is eventually answered with a definite outcome: guidance, the skipped
\* status or an error.
C11_NeverSilence ==
    \A i \in 1..MaxMsgs : (received >= i) ~> Answered(1, i)

\* C12: a handler whose gateway call does not return eventually stops
\* waiting: it ends, and the message has been answered with an error.
C12_TimeoutEndsWait ==
    \A i \in 1..MaxMsgs :
        WaitsForever(i)
        ~> (/\ \A h \in handlers : h.id # i
            /\ \E k \in 1..Len(outbound[1]) :
                  outbound[1][k].re = i /\ outbound[1][k].type = "error")

\* message i of session s was answered with the error of a failed gateway
\* call / with guidance
GatewayError(s, i) ==
    /\ \E c \in 1..Len(aiCalls) : aiCalls[c].id = i /\ aiCalls[c].sid = s
    /\ \E k \in 1..Len(outbound[s]) :
          outbound[s][k].re = i /\ outbound[s][k].type = "error"
GuidanceFor(s, i) ==
    \E k \in 1..Len(outbound[s]) :
        outbound[s][k].re = i /\ outbound[s][k].type = "response"

\* C13: a gateway failure is not fatal to the session: the step in which a
\* frame or chat handler's call fails sends exactly one error outbound and
\* leaves the session's state, its registry entry and its connection as they
\* were.
C13_FailureNotFatal ==
    [][\A h \in handlers :
          (/\ h.pc = "gateway"
           /\ Finishes(h)
           /\ ~(Answers(h) /\ AnswerType(h) = "response"))
          => /\ Answers(h)
             /\ AnswerType(h) = "error"
             /\ session' = session
             /\ activeSessions' = activeSessions
             /\ wsState' = wsState]_vars

\* a frame's analysis failed, and the next frame on the same session was
\* analyzed and answered with guidance
C13_Witness ==
    /\ GatewayError(1, 1)
    /\ GuidanceFor(1, 2)
    /\ Len(aiCalls) = 2
    /\ \A c \in 1..2 : aiCalls[c].api = "analyzeScreenFrame"
    /\ 1 \in activeSessions
    /\ session[1].lastFrameData # NULL

\* the failure kinds and the reason each is to be surfaced with
Kind(e) ==
    CASE e = SdkAuth -> "authentication"
      [] e \in {SdkExhausted, SdkQuota} -> "quota"
      [] e = SdkArgument -> "malformed-input"
      [] e = SdkTimeout -> "timeout"
      [] OTHER -> "unknown"
Reason(kind) ==
    CASE kind = "authentication" -> "AI API authentication failed"
      [] kind = "quota" -> "AI API rate limit exceeded"
      [] kind = "malformed-input" -> "Invalid image data"
      [] kind = "timeout" -> "AI API request timeout"
      [] OTHER -> "Failed to analyze screen"

\* C14: when a frame's gateway call fails, the error outbound carries the
\* reason of the failure's kind: authentication failed, rate limit exceeded,
\* invalid image data, request timeout, or the generic analysis failure.
C14_FrameErrorReason ==
    [][\A h \in handlers : \A e \in SdkErrors :
          FrameReturn(h, Failure(e))
          => /\ Answers(h)
             /\ AnswerType(h) = "error"
             /\ Last(outbound'[h.sid]).message = Reason(Kind(e))]_vars

\* C15: when a chat's gateway call fails, the error outbound tells the kind
\* of the failure: a step that reports a failure of one kind could not have
\* reported a failure of another kind.
C15_ChatErrorReason ==
    [][\A h \in handlers : \A e1, e2 \in SdkErrors :
          (ChatReturn(h, Failure(e1)) /\ Kind(e1) # Kind(e2))
          => ~ChatReturn(h, Failure(e2))]_vars

\* the gateway calls made for message i / the error outbounds answering it
CallsFor(i) == {c \in 1..Len(aiCalls) : aiCalls[c].id = i}
ErrorsFor(s, i) ==
    {k \in 1..Len(outbound[s]) :
        outbound[s][k].re = i /\ outbound[s][k].type = "error"}

\* C16: the engine never retries the gateway: at most one gateway call is
\* ever made for one inbound message, and a failure is reported at most
\* once.
C16_NoRetry ==
    \A i \in 1..received :
        /\ Cardinality(CallsFor(i)) <= 1
        /\ \A s \in SessionIds : Cardinality(ErrorsFor(s, i)) <= 1

\* the call made for a frame failed and was reported; the handler has ended
\* and a later message has been handled, with no second call for the frame
C16_Witness ==
    /\ GatewayError(1, 1)
    /\ aiCalls # <<>> /\ aiCalls[1].api = "analyzeScreenFrame"
    /\ Cardinality(CallsFor(1)) = 1
    /\ handlers = {}
    /\ received = 2

\* the kinds of message the engine knows
Recognized ==
    {"connection", "frame", "screen_frame", "chat", "chat_message",
     "set_goal", "update_metadata", "get_history", "ping"}
\* a parsed message with no type field or a type the engine does not know
Unrecognized(m) == m.json /\ (~Truthy(m.type) \/ m.type \notin Recognized)
\* this step puts exactly one message on socket s, an error answering the
\* message just received
RejectsWithError(s) ==
    /\ Len(outbound'[s]) = Len(outbound[s]) + 1
    /\ Last(outbound'[s]).type = "error"
    /\ Last(outbound'[s]).re = received'

\* C17: a message with no type or with an unrecognized type is answered with
\* exactly one error outbound, starts no handler and no gateway call, and
\* changes no field of the session.
C17_UnknownKindRejected ==
    [][\A m \in AllControlInputs :
          (Unrecognized(m) /\ ReceiveControl(1, m, MaxMsgs))
          => /\ RejectsWithError(1)
             /\ aiCalls' = aiCalls
             /\ handlers' = handlers
             /\ session' = session]_vars

\* a message without a type and a message of an unknown type have both been
\* rejected, and the session is as it was created
C17_Witness ==
    /\ \E k \in 1..Len(outbound[1]) :
          outbound[1][k].message = "Invalid message format"
    /\ \E k \in 1..Len(outbound[1]) :
          outbound[1][k].message = "Unknown message type: bogus"
    /\ session[1] = NewSession
    /\ aiCalls = <<>>

\* the image payload of a frame message, and whether it is missing, empty
\* (also after its data-URI prefix is stripped) or not base64 text
FramePayload(m) == IF m.data # Absent THEN m.data ELSE m.frame
InvalidPayload(m) ==
    \/ FramePayload(m) = Absent
    \/ FramePayload(m).b64 \in {"", Blank}
    \/ FramePayload(m).b64 \notin Base64Strings

\* C18: a frame message whose image payload is missing, empty or not
\* parseable as base64 is answered with an error, starts no handler (it
\* reaches neither the Throttle Gate nor the gateway) and leaves the
\* session, with lastFrameData, lastFrameTimestamp and screenHistory, as it
\* was.
C18_BadFrameRejected ==
    [][\A m \in PayloadInputs :
          (InvalidPayload(m) /\ ReceiveFrame(1, m, MaxMsgs))
          => /\ RejectsWithError(1)
             /\ handlers' = handlers
             /\ aiCalls' = aiCalls
             /\ session' = session]_vars

\* C19: a chat message whose text is missing or empty is answered with an
\* error; no user turn is appended, no gateway call is made and the session
\* (stepHistory, userGoal, isFirstMessage) is unchanged.
C19_EmptyChatRejected ==
    [][\A m \in AllChatInputs :
          (/\ m.message \in {NULL, ""}
           /\ m.content \in {NULL, ""}
           /\ ReceiveChat(1, m, MaxMsgs))
          => /\ RejectsWithError(1)
             /\ handlers' = handlers
             /\ aiCalls' = aiCalls
             /\ session' = session]_vars

\* a chat was answered, and then a chat without text was rejected: the
\* history holds the first chat's two turns only
C19_Witness ==
    /\ GuidanceFor(1, 1)
    /\ \E k \in 1..Len(outbound[1]) :
          outbound[1][k].re = 2 /\ outbound[1][k].message = "No content provided"
    /\ Len(session[1].conversationHistory) = 2
    /\ Len(aiCalls) = 1

\* the connections that are open
OpenConnections == {s \in SessionIds : wsState[s] = "open"}
\* this step accepts / closes connection s
Accepts(s) == wsState[s] = "none" /\ wsState'[s] = "open"
Closes(s) == wsState[s] = "open" /\ wsState'[s] = "closed"

\* C20: after every step the registry and the active-session listing hold
\* exactly the open connections (so no closed connection has an entry); the
\* step that accepts a connection creates its entry with empty histories,
\* empty userGoal, isFirstMessage true and no last frame and sends
\* connected{sessionId}; the step that closes a connection removes its entry.
C20_OneEntryPerConnection ==
    [][/\ activeSessions' = OpenConnections'
       /\ {e.sessionId : e \in getAllActiveSessions'} = OpenConnections'
       /\ \A s \in SessionIds :
             /\ Accepts(s)
                => /\ s \notin activeSessions
                   /\ getSessionData(s)' = NewSession
                   /\ outbound'[s] = Append(outbound[s], Last(outbound'[s]))
                   /\ Last(outbound'[s]).type = "connected"
                   /\ Last(outbound'[s]).sessionId = s
             /\ Closes(s)
                => /\ s \in activeSessions
                   /\ getSessionData(s)' = NULL]_vars

\* one connection was used and closed while the other is open: only the
\* open one has an entry, although the closed one's session had a goal
C20_Witness ==
    /\ wsState[1] = "closed"
    /\ wsState[2] = "open"
    /\ activeSessions = {2}
    /\ session[1].userGoal # ""
    /\ {e.sessionId : e \in getAllActiveSessions} = {2}

\* the registry as a lookup: every id's entry, or none
Registry == [s \in SessionIds |-> getSessionData(s)]
\* handler h waits on a gateway call
Outstanding(h) == h \in handlers /\ h.pc = "gateway"

\* C21: when the result of a gateway call arrives after its connection has
\* closed, the handler ends without sending anything, and the registry is
\* as it was: no entry is created and no entry's session is changed.
C21_LateResultDiscarded ==
    [][\A h \in handlers :
          (Outstanding(h) /\ wsState[h.sid] = "closed" /\ Finishes(h))
          => /\ outbound' = outbound
             /\ activeSessions' = activeSessions
             /\ Registry' = Registry
             /\ wsState' = wsState]_vars

\* connection 1 closed while the call for its message 1 was outstanding; the
\* call has returned since, nothing answers message 1, and connection 2 is
\* served
C21_Witness ==
    /\ wsState[1] = "closed"
    /\ \E c \in 1..Len(aiCalls) : aiCalls[c].id = 1 /\ aiCalls[c].sid = 1
    /\ \A h \in handlers : h.id # 1
    /\ ~Answered(1, 1)
    /\ wsState[2] = "open"
    /\ GuidanceFor(2, 2)

\* session s has a handler waiting on a gateway call or an image comparison
Waiting(s) ==
    \E h \in handlers : h.sid = s /\ h.pc \in {"gateway", "comparing"}
\* the client of connection t can send its next message
Ready(t) == wsState[t] = "open" /\ received < MaxFrames /\ EventLoopIdle
\* this step leaves everything of session t as it was
Untouched(t) ==
    /\ session'[t] = session[t]
    /\ outbound'[t] = outbound[t]
    /\ wsState'[t] = wsState[t]
    /\ lastFrameCall'[t] = lastFrameCall[t]
    /\ Unfinished(t)' = Unfinished(t)

Extends(t, q) == Len(t) >= Len(q) /\ SubSeq(t, 1, Len(q)) = q

\* C23: screenHistory, stepHistory and conversationHistory are append-only:
\* every step leaves each of them as it was or with entries added at its
\* end.
C23_HistoriesAppendOnly ==
    [][\A s \in SessionIds :
          /\ Extends(session'[s].screenHistory, session[s].screenHistory)
          /\ Extends(session'[s].stepHistory, session[s].stepHistory)
          /\ Extends(session'[s].conversationHistory,
                     session[s].conversationHistory)]_vars

\* two frames were analyzed, so the second entry was appended to a
\* screenHistory that had one
C23_Witness ==
    /\ Len(session[1].screenHistory) = 2
    /\ session[1].screenHistory[1].guidance = Reply(1)
    /\ session[1].screenHistory[2].guidance = Reply(2)

\* a chat message that carries text
HasText(m) == Truthy(m.message) \/ Truthy(m.content)

\* C24: a chat message with text always starts a gateway call, whatever the
\* throttle state, and neither receiving a chat nor finishing one changes
\* lastFrameData, lastFrameTimestamp or screenHistory.
C24_ChatBypassesThrottle ==
    [][/\ \A m \in AllChatInputs :
             ReceiveChat(1, m, MaxMsgs)
             => /\ FrameState(session'[1]) = FrameState(session[1])
                /\ HasText(m)
                   => /\ Len(aiCalls') = Len(aiCalls) + 1
                      /\ Last(aiCalls').api = "getContextualResponse"
                      /\ Last(aiCalls').id = received'
       /\ \A h \in handlers :
             (h.kind = "chat" /\ Finishes(h))
             => FrameState(session'[h.sid]) = FrameState(session[h.sid])]_vars

\* a chat that carried a frame was answered right after a frame had been
\* analyzed, inside the minimum interval: the call was made and the throttle
\* state is still that of the analyzed frame
C24_Witness ==
    /\ Len(aiCalls) = 2
    /\ aiCalls[1].api = "analyzeScreenFrame"
    /\ aiCalls[2].api = "getContextualResponse"
    /\ aiCalls[2].image = "imgA"
    /\ GuidanceFor(1, 1) /\ GuidanceFor(1, 2)
    /\ session[1].lastFrameData = "imgD"
    /\ session[1].lastFrameTimestamp = now
    /\ Len(session[1].screenHistory) = 1

\* C25: set_goal makes userGoal the supplied goal, sends exactly one
\* acknowledgement that carries the goal, and leaves every other field of
\* the session as it was; it starts no handler and no gateway call.
C25_SetGoal ==
    [][\A g \in {"g1", "g2"} :
          ReceiveControl(1, SetGoalMsg(g), MaxChats)
          => /\ session'[1].userGoal = g
             /\ [session'[1] EXCEPT !.userGoal = session[1].userGoal]
                  = session[1]
             /\ Len(outbound'[1]) = Len(outbound[1]) + 1
             /\ Last(outbound'[1]).type = "status"
             /\ Last(outbound'[1]).message = "Goal updated"
             /\ Last(outbound'[1]).goal = g
             /\ handlers' = handlers
             /\ aiCalls' = aiCalls]_vars

\* a goal captured from the first chat was overwritten by set_goal; the
\* histories of the chat are still there
C25_Witness ==
    /\ session[1].userGoal = "g2"
    /\ ~session[1].isFirstMessage
    /\ Len(session[1].conversationHistory) = 2
    /\ Last(outbound[1]).message = "Goal updated"

\* C26: update_metadata makes every supplied key hold the supplied value,
\* keeps every other key with its value, sends nothing, changes no other
\* field of the session, and applying the same update again changes
\* nothing.
C26_UpdateMetadata ==
    [][\A m \in ControlInputs :
          (m.type = "update_metadata" /\ ReceiveControl(1, m, MaxChats))
          => LET old == session[1].metadata
                 new == session'[1].metadata
             IN  /\ DOMAIN new = DOMAIN old \cup DOMAIN m.metadata
                 /\ \A k \in DOMAIN m.metadata : new[k] = m.metadata[k]
                 /\ \A k \in DOMAIN old \ DOMAIN m.metadata : new[k] = old[k]
                 /\ MergeMetadata(new, m.metadata) = new
                 /\ [session'[1] EXCEPT !.metadata = old] = session[1]
                 /\ outbound' = outbound
                 /\ handlers' = handlers
                 /\ aiCalls' = aiCalls]_vars

\* an update overwrote a key of an earlier update and a third one a key of
\* the second: the last write of each key is what the session holds
C26_Witness ==
    /\ DOMAIN session[1].metadata = {"cursor", "element"}
    /\ session[1].metadata["cursor"] = "c2"
    /\ session[1].metadata["element"] = "e2"
    /\ received = 3
    /\ Len(outbound[1]) = 1

\* whether a base64 text decodes to a bitmap, and the bitmap's dimensions
Decodes(img) == img \in Images
Dimensions(img) == <<Png(img).width, Png(img).height>>
Comparable(a, b) ==
    Decodes(a) /\ Decodes(b) /\ Dimensions(a) = Dimensions(b)
\* this step ends handler h's comparison with "different": h goes on to the
\* gateway
FoundDifferent(h) ==
    \E g \in handlers' : g.id = h.id /\ g.pc = "gateway"
\* this step ends handler h's comparison
ComparisonEnds(h) ==
    h.pc = "comparing" /\ \A g \in handlers' : g.id = h.id => g.pc # "comparing"

\* C27: the Frame Differ fails open: when either image does not decode or
\* the dimensions of the two differ, the comparison ends with "different"
\* whatever the content, and no pixel count is taken (the count is -1).
C27_DifferFailsOpen ==
    [][\A h \in handlers :
          (ComparisonEnds(h) /\ ~Comparable(h.ref, h.image))
          => /\ FoundDifferent(h)
             /\ compareFrames(h.ref, h.image).diffPixels = -1]_vars

\* a frame with the same content and other dimensions than the analyzed one
\* was found different and sent to the gateway
C27_Witness ==
    \E h \in handlers :
        h.pc = "gateway" /\ h.ref = "imgA" /\ h.image = "imgW"

\* C28: when both images decode and have equal dimensions, the comparison
\* ends with "different" exactly when the number of differing pixels is at
\* least 1000, whatever the size of the images, and that number is the
\* count reported.
C28_DifferThreshold ==
    [][\A h \in handlers :
          (ComparisonEnds(h) /\ Comparable(h.ref, h.image))
          => LET count == pixelmatch(Png(h.ref), Png(h.image))
             IN  /\ FoundDifferent(h) <=> count >= 1000
                 /\ compareFrames(h.ref, h.image).diffPixels = count]_vars

\* a frame differing from the analyzed one in exactly 1000 pixels was found
\* different
C28_Witness ==
    \E h \in handlers :
        h.pc = "gateway" /\ h.ref = "imgA" /\ h.image = "imgC"

\* a socket raises "close" in this step
SocketCloses ==
    \E k \in Sockets : sockets[k] # "CLOSED" /\ sockets'[k] = "CLOSED"

\* a socket raises "open" in this step
SocketOpens ==
    \E k \in Sockets : sockets[k] # "OPEN" /\ sockets'[k] = "OPEN"

\* a reconnect is scheduled in this step
SchedulesReconnect ==
    /\ Len(delays') = Len(delays) + 1
    /\ reconnectTimeout' = "pending"

\* C29: when a socket closes and fewer than 10 reconnects have been scheduled
\* since the last successful open, a reconnect is scheduled (status
\* "reconnecting", counter plus one); when 10 have been, the status becomes
\* "failed" and none is scheduled; never more than 10 are scheduled without
\* a successful open; and an open sets the counter to 0.
C29_ReconnectUpToLimit ==
    [][/\ (SocketCloses /\ reconnectAttempts < maxReconnectAttempts)
          => /\ SchedulesReconnect
             /\ reconnectAttempts' = reconnectAttempts + 1
             /\ status' = "reconnecting"
       /\ (SocketCloses /\ reconnectAttempts >= maxReconnectAttempts)
          => /\ status' = "failed"
             /\ ~SchedulesReconnect
             /\ UNCHANGED <<reconnectAttempts, reconnectTimeout, delays>>
       /\ Len(delays') <= maxReconnectAttempts
       /\ reconnectAttempts' = Len(delays')
       /\ SocketOpens => reconnectAttempts' = 0]_vars

\* ten reconnects in a row found no server, the manager gave up, and before
\* that an open had reset the counter
C29_Witness ==
    /\ status = "failed"
    /\ reconnectAttempts = maxReconnectAttempts
    /\ reconnectTimeout = "fired"
    /\ wire # <<>>

\* the delays grow by a constant factor greater than one
Exponential(d) ==
    /\ \A n \in 1..(Len(d) - 1) : d[n + 1] > d[n]
    /\ \A n \in 1..(Len(d) - 2) : d[n + 1] * d[n + 1] = d[n] * d[n + 2]

\* C30: the delays of the reconnects scheduled one after another since the
\* last successful open grow exponentially with the attempt number.
C30_ExponentialBackoff == Exponential(delays)

\* send() is called in a state where the manager is connected and its
\* current socket is OPEN
CanTransmit == isConnected /\ ws # 0 /\ sockets[ws] = "OPEN"

\* C31: send(data) called while the manager is connected and its socket is
\* OPEN puts exactly data on that socket and returns true; called in any
\* other state it puts nothing on any socket and returns false; and nothing
\* reaches a socket later on its own: the wire only grows by a send that
\* returns true, by one message, the open listener's "connection" included.
C31_SendOnlyWhenOpen ==
    [][/\ \A d \in AppData :
            AppSends(d)
            => IF CanTransmit
               THEN /\ wire' = Append(wire, [socket |-> ws, data |-> d])
                    /\ sendResult' = "true"
               ELSE /\ wire' = wire
                    /\ sendResult' = "false"
       /\ wire' # wire
          => /\ sendResult' = "true"
             /\ Len(wire') = Len(wire) + 1
             /\ \/ \E d \in AppData : AppSends(d) /\ CanTransmit
                \/ SocketOpens /\ wire'[Len(wire')].data = Hello]_vars

\* a frame went out on the open socket, and a later send found the manager
\* holding a socket that is no longer open
C31_Witness ==
    /\ \E i \in 1..Len(wire) : wire[i].data.type = "frame"
    /\ sendResult = "false"
    /\ ws # 0
    /\ sockets[ws] # "OPEN"

C33_CaptureActive ==
    /\ isCaptureActive <=> (isCapturing /\ ~isPaused)
    /\ isCaptureActive <=> (getCaptureState = "active")
    /\ WebRTCManager => ~isCaptureActive

\* capture is running but paused: the state is "paused" and not active
C33_Witness ==
    /\ isCapturing
    /\ isPaused
    /\ getCaptureState = "paused"
    /\ ~isCaptureActive

\* C34: a chat the renderer sends together with a captured frame is put on
\* the socket with the frame in it, and the chat handler's gateway call is
\* given an image.
C34_ChatCarriesFrame ==
    /\ \A i \in 1..Len(wire) :
          wire[i].data.type = "chat" => TruthyData(wire[i].data.frameData)
    /\ \A c \in 1..Len(aiCalls) :
          aiCalls[c].api = "getContextualResponse"
          => aiCalls[c].image \in CapturedFrames

\* C35: when a chat is answered while isFirstMessage is still true, userGoal
\* becomes that chat's text and isFirstMessage false, whatever userGoal was
\* (a goal from set_goal included); when a chat's answer or failure is
\* handled while isFirstMessage is false, userGoal stays as it is.
C35_FirstChatSetsGoal ==
    [][\A h \in handlers : \A r \in ChatOutcomes(h) :
          ChatReturn(h, r)
          => /\ (r.ok /\ session[h.sid].isFirstMessage)
                => /\ session'[h.sid].userGoal = h.text
                   /\ ~session'[h.sid].isFirstMessage
             /\ ~session[h.sid].isFirstMessage
                => session'[h.sid].userGoal = session[h.sid].userGoal]_vars

\* the user turn of chat handler h is in the session's conversationHistory
UserTurnKept(h, hist) ==
    \E i \in 1..Len(hist) : hist[i].role = "user" /\ hist[i].content = h.text

\* C36: handling a chat's gateway failure leaves the whole session as it
\* was: the chat's user turn stays in conversationHistory, no assistant turn
\* is added, and stepHistory, userGoal and isFirstMessage keep their values;
\* and a chat is given to the gateway as the first message exactly when
\* isFirstMessage is true on its arrival, so also after a failed first chat.
C36_FailedChatKeepsTurn ==
    [][/\ \A h \in handlers : \A r \in ChatOutcomes(h) :
            (ChatReturn(h, r) /\ ~r.ok)
            => /\ session' = session
               /\ UserTurnKept(h, session'[h.sid].conversationHistory)
       /\ \A m \in ChatInputs :
            (ReceiveChat(1, m, MaxChats) /\ Len(aiCalls') > Len(aiCalls))
            => aiCalls'[Len(aiCalls')].first = session[1].isFirstMessage]_vars

\* the first chat failed, and the chat that arrived after the error was sent
\* went to the gateway as the first message
C36_Witness ==
    /\ Len(aiCalls) = 2
    /\ aiCalls[2].first
    /\ Len(outbound[1]) >= 4
    /\ outbound[1][3].type = "error"
    /\ outbound[1][3].re = aiCalls[1].id
    /\ outbound[1][4].re = aiCalls[2].id
    /\ session[1].isFirstMessage
    /\ Len(session[1].conversationHistory) = 2

\* C37: in every session the assistant turns of conversationHistory are as
\* many as the entries of stepHistory and at most as many as the user turns,
\* and screenHistory has one entry for each frame analysis that succeeded on
\* the session (each one answered by a guidance message on the open
\* connection).
C37_HistoryCounts ==
    \A s \in SessionIds :
        LET hist == session[s].conversationHistory IN
        /\ Len(Turns(hist, "assistant")) = Len(session[s].stepHistory)
        /\ Len(Turns(hist, "assistant")) <= Len(Turns(hist, "user"))
        /\ wsState[s] = "open"
           => Len(session[s].screenHistory)
                = Len(Guidance(s, "analyzeScreenFrame"))

\* a frame was analyzed and a chat answered on the same session
C37_Witness ==
    /\ Len(session[1].screenHistory) = 1
    /\ Len(session[1].stepHistory) = 1
    /\ Len(Turns(session[1].conversationHistory, "user")) = 1

\* the throttle's reference of session s: image and time
Reference(sess) == <<sess.lastFrameData, sess.lastFrameTimestamp>>

\* C38: lastFrameData and lastFrameTimestamp are unset together or set
\* together, and they change only in the step that handles a successful
\* frame analysis, which sets the one to that frame's image and the other to
\* the time of that step, however many frame handlers are in flight.
C38_ReferenceSetTogether ==
    [][\A s \in SessionIds :
          /\ (session[s].lastFrameData = NULL)
                <=> (session[s].lastFrameTimestamp = NullTime)
          /\ (session'[s].lastFrameData = NULL)
                <=> (session'[s].lastFrameTimestamp = NullTime)
          /\ Reference(session'[s]) # Reference(session[s])
             => \E h \in handlers :
                   /\ h.sid = s
                   /\ FrameReturn(h, Success(h.id))
                   /\ Reference(session'[s]) = <<h.image, now>>]_vars

\* two analyses of one session succeeded while a third frame of it was still
\* with the gateway
C38_Witness ==
    /\ Len(session[1].screenHistory) = 2
    /\ session[1].lastFrameData # NULL
    /\ \E h \in handlers : h.sid = 1 /\ h.kind = "frame" /\ h.pc = "gateway"

\* C39: a valid frame that arrives while its session has no lastFrameData
\* is given the decision "analyze" on arrival, without the interval check
\* and without the Frame Differ, and its handler's next step is the gateway
\* call for that frame: this however many calls of the session have failed
\* or are still in flight, and however little time has passed.
C39_NoThrottleBeforeFirstSuccess ==
    [][/\ \A m \in FrameInputs :
            (ReceiveFrame(1, m, MaxFrames) /\ session[1].lastFrameData = NULL)
            => \E h \in handlers' \ handlers :
                  /\ h.id = received'
                  /\ h.pc = "decided"
                  /\ h.decision
       /\ \A h \in handlers :
            (IsFrame(h) /\ Fresh(h) /\ ResumeFrame(h))
            => aiCalls' = Append(aiCalls, Call(h, "analyzeScreenFrame"))]_vars

\* three calls for the same picture at the same instant: the first failed,
\* the second is in flight, and the session still has no reference frame
C39_Witness ==
    /\ Len(aiCalls) = 3
    /\ \A c \in 1..3 : aiCalls[c].image = aiCalls[1].image
    /\ now = StartTime
    /\ session[1].lastFrameData = NULL
    /\ \E i \in 1..Len(outbound[1]) :
          outbound[1][i].type = "error" /\ outbound[1][i].re = aiCalls[1].id
    /\ \E h \in handlers : h.id = aiCalls[2].id /\ h.pc = "gateway"

\* disconnect() was the last call the application made: the manager holds
\* no socket although one was created
Disconnected == ws = 0 /\ sockets # <<>>

\* C40: while disconnect() is the application's last call, no reconnect is
\* pending, none is scheduled and no socket is created, whatever event the
\* closed socket still raises.
C40_StaysDisconnected ==
    [][Disconnected
       => /\ reconnectTimeout # "pending"
          /\ ~SchedulesReconnect
          /\ Len(sockets') = Len(sockets)]_vars

====
